---------------------------- MODULE Spec2Model ----------------------------
(***************************************************************************)
(* Orpheus TTS: the speech engine (orpheus_engine.py), its settings        *)
(* (orpheus_settings.py) and the host glue holding the global engine       *)
(* (orpheus_cat.py).                                                       *)
(*                                                                         *)
(* Texts are sequences of one-character strings.  Four characters that     *)
(* TLA+ strings cannot spell are written by name: "SOH" is U+0001 (a       *)
(* control character), "ELLIPSIS" is U+2026, "DEG" is U+00B0 and "BQ" is   *)
(* the backtick.                                                           *)
(***************************************************************************)
EXTENDS Integers, Sequences, FiniteSets, TLC

VARIABLES
    np,         \* the module global np: TRUE when numpy was imported, FALSE for None
    settings,   \* self.settings of the engine serving requests
    stats,      \* self.stats
    cache,      \* the files of self.cache_dir: cache file name -> content
    fs,         \* the output files: path -> content
    pc,         \* per thread: the place in generate_speech
    req,        \* per thread: the locals of the running generate_speech call
    prev,       \* the last completed request (history)
    nreq,       \* requests started on this engine (bounds the counters)
    threads,    \* the threads calling the engine
    rng,        \* the state of the random module's shared generator
    lock,       \* _engine_lock: the thread holding it, or 0
    global,     \* _orpheus_engine: an index of engines, or 0 (None)
    engines,    \* the OrpheusEngine objects allocated so far
    saved,      \* the plugin settings stored by the host
    hpc,        \* per thread: the place in the host glue
    hloc,       \* per thread: the locals of the host glue
    nops,       \* host operations started (bounds the run)
    fin,        \* inputs of the pure functions under check
    fout        \* their results

vars == <<np, settings, stats, cache, fs, pc, req, prev, nreq, threads, rng,
          lock, global, engines, saved, hpc, hloc, nops, fin, fout>>

engineVars == <<settings, stats, cache, fs, pc, req, prev, nreq, threads, rng>>
hostVars == <<lock, global, engines, saved, hpc, hloc, nops>>
fnVars == <<fin, fout>>

-----------------------------------------------------------------------------
(* Characters *)

Space == {" ", "\n", "\t"}
Control == {"SOH"}
Digit == {"0", "1", "2", "3", "4", "5", "6", "7", "8", "9"}
Letter == {"a", "b", "c", "d", "e", "f", "g", "h", "i", "j", "k", "l", "m", "n",
           "o", "p", "q", "r", "s", "t", "u", "v", "w", "x", "y", "z",
           "D", "P", "S", "C", "_"}

IsSpace(c) == c \in Space
IsWord(c) == c \in Letter \cup Digit

\* \b in front of a word character at index i
Boundary(s, i) == i = 1 \/ ~IsWord(s[i - 1])

RECURSIVE FirstIndex(_, _, _)
\* the least j >= i with s[j] = c; 0 when there is none
FirstIndex(s, c, i) ==
    IF i > Len(s) THEN 0
    ELSE IF s[i] = c THEN i
    ELSE FirstIndex(s, c, i + 1)

AllAt(s, i, n, c) == i + n - 1 <= Len(s) /\ \A k \in i..(i + n - 1) : s[k] = c

MatchAt(s, i, p) == i + Len(p) - 1 <= Len(s) /\ SubSeq(s, i, i + Len(p) - 1) = p

RECURSIVE SubDelimited(_, _, _, _, _, _)
\* re.sub of  o{n} ([^c]+) c{n}  from index i on: the match is replaced by
\* its group when keep, by nothing otherwise
SubDelimited(s, i, o, c, n, keep) ==
    IF i > Len(s) THEN <<>>
    ELSE LET b == i + n
             j == FirstIndex(s, c, b)
         IN  IF AllAt(s, i, n, o) /\ b <= Len(s) /\ s[b] # c
                /\ j # 0 /\ AllAt(s, j, n, c)
             THEN (IF keep THEN SubSeq(s, b, j - 1) ELSE <<>>)
                  \o SubDelimited(s, j + n, o, c, n, keep)
             ELSE <<s[i]>> \o SubDelimited(s, i + 1, o, c, n, keep)

RECURSIVE SubClass(_, _, _, _)
\* re.sub of a character class by a fixed string
SubClass(s, i, class, r) ==
    IF i > Len(s) THEN <<>>
    ELSE (IF s[i] \in class THEN r ELSE <<s[i]>>) \o SubClass(s, i + 1, class, r)

RECURSIVE CollapseSpace(_, _)
\* re.sub(r'\s+', ' ', s)
CollapseSpace(s, i) ==
    IF i > Len(s) THEN <<>>
    ELSE IF IsSpace(s[i])
         THEN (IF i > 1 /\ IsSpace(s[i - 1]) THEN <<>> ELSE <<" ">>)
              \o CollapseSpace(s, i + 1)
         ELSE <<s[i]>> \o CollapseSpace(s, i + 1)

RECURSIVE LStrip(_)
LStrip(s) == IF s # <<>> /\ IsSpace(Head(s)) THEN LStrip(Tail(s)) ELSE s

RECURSIVE RStrip(_)
RStrip(s) ==
    IF s # <<>> /\ IsSpace(s[Len(s)]) THEN RStrip(SubSeq(s, 1, Len(s) - 1)) ELSE s

\* str.strip()
Strip(s) == RStrip(LStrip(s))

RECURSIVE SubWord(_, _, _, _)
\* re.sub of  \b p  by r, p a literal starting with a word character
SubWord(s, i, p, r) ==
    IF i > Len(s) THEN <<>>
    ELSE IF MatchAt(s, i, p) /\ Boundary(s, i)
         THEN r \o SubWord(s, i + Len(p), p, r)
         ELSE <<s[i]>> \o SubWord(s, i + 1, p, r)

\* the index after the longest run of digits starting at i
DigitsEnd(s, i) ==
    LET stops == {j \in i..Len(s) : s[j] \notin Digit} \cup {Len(s) + 1}
    IN  CHOOSE k \in stops : \A j \in stops : k <= j

RECURSIVE SubNumber(_, _, _, _)
\* re.sub of  \b(\d+) sym  by  \1 word
SubNumber(s, i, sym, word) ==
    IF i > Len(s) THEN <<>>
    ELSE LET k == DigitsEnd(s, i)
         IN  IF k > i /\ Boundary(s, i) /\ k <= Len(s) /\ s[k] = sym
             THEN SubSeq(s, i, k - 1) \o word \o SubNumber(s, k + 1, sym, word)
             ELSE <<s[i]>> \o SubNumber(s, i + 1, sym, word)

Dr == <<"D", "r", ".">>
Dottore == <<"D", "o", "t", "t", "o", "r", "e">>
Prof == <<"P", "r", "o", "f", ".">>
Professore == <<"P", "r", "o", "f", "e", "s", "s", "o", "r", "e">>
Sig == <<"S", "i", "g", ".">>
Signore == <<"S", "i", "g", "n", "o", "r", "e">>
Sigra == <<"S", "i", "g", ".", "r", "a">>
Signora == <<"S", "i", "g", "n", "o", "r", "a">>
Gradi == <<" ", "g", "r", "a", "d", "i">>
Percento == <<" ", "p", "e", "r", "c", "e", "n", "t", "o">>

\* OrpheusEngine.clean_text
clean_text(text) ==
    IF text = <<>> THEN <<>>
    ELSE LET t1 == SubDelimited(text, 1, "<", ">", 1, FALSE)
             t2 == SubDelimited(t1, 1, "*", "*", 2, TRUE)
             t3 == SubDelimited(t2, 1, "*", "*", 1, TRUE)
             t4 == SubDelimited(t3, 1, "BQ", "BQ", 1, TRUE)
             t5 == SubClass(t4, 1, Control, <<>>)
             t6 == SubClass(t5, 1, {"ELLIPSIS"}, <<".", ".", ".">>)
             t7 == SubClass(t6, 1, {"\""}, <<"\"">>)
             t8 == SubClass(t7, 1, {"'"}, <<"'">>)
             t9 == Strip(CollapseSpace(t8, 1))
             t10 == SubWord(t9, 1, Dr, Dottore)
             t11 == SubWord(t10, 1, Prof, Professore)
             t12 == SubWord(t11, 1, Sig, Signore)
             t13 == SubWord(t12, 1, Sigra, Signora)
             t14 == SubNumber(t13, 1, "DEG", Gradi)
         IN  SubNumber(t14, 1, "%", Percento)

-----------------------------------------------------------------------------
(* Settings (orpheus_settings.py).  Enum members are their values, spelled  *)
(* as texts; speed is in tenths (10 is 1.0).                                *)

tara == <<"t", "a", "r", "a">>
alex == <<"a", "l", "e", "x">>
neutral == <<"n", "e", "u", "t", "r", "a", "l">>
happy == <<"h", "a", "p", "p", "y">>
wav == <<"w", "a", "v">>
mp3 == <<"m", "p", "3">>

\* OrpheusSettings.validate_sample_rate
valid_rates == {8000, 16000, 22050, 44100, 48000}

\* the statistics of a fresh engine (OrpheusEngine.__init__, reset_stats)
ZeroStats ==
    [requests_total |-> 0, requests_success |-> 0, requests_failed |-> 0,
     cache_hits |-> 0, tokens_generated |-> 0, last_request |-> "None"]

-----------------------------------------------------------------------------
(* The cache key *)

DigitChar(n) == <<"0", "1", "2", "3", "4", "5", "6", "7", "8", "9">>[n + 1]

\* repr of a float with one decimal, as json.dumps writes it
FloatRepr(tenths) == <<DigitChar(tenths \div 10), ".", DigitChar(tenths % 10)>>

\* json.dumps of one character of a string (ensure_ascii)
JsonEscape(c) ==
    CASE c = "\"" -> <<"\\", "\"">>
      [] c = "\\" -> <<"\\", "\\">>
      [] c = "\n" -> <<"\\", "n">>
      [] c = "\t" -> <<"\\", "t">>
      [] c = "SOH" -> <<"\\", "u", "0", "0", "0", "1">>
      [] c = "ELLIPSIS" -> <<"\\", "u", "2", "0", "2", "6">>
      [] c = "DEG" -> <<"\\", "u", "0", "0", "b", "0">>
      [] c = "BQ" -> <<"BQ">>
      [] OTHER -> <<c>>

RECURSIVE JsonChars(_)
JsonChars(s) == IF s = <<>> THEN <<>> ELSE JsonEscape(Head(s)) \o JsonChars(Tail(s))

\* json.dumps of a string
JsonString(s) == <<"\"">> \o JsonChars(s) \o <<"\"">>

JsonItem(name, value) == JsonString(name) \o <<":", " ">> \o value

\* json.dumps(cache_data, sort_keys=True)
json_dumps(cache_data) ==
    <<"{">>
    \o JsonItem(<<"e", "m", "o", "t", "i", "o", "n">>, JsonString(cache_data.emotion))
    \o <<",", " ">>
    \o JsonItem(<<"f", "o", "r", "m", "a", "t">>, JsonString(cache_data.format))
    \o <<",", " ">>
    \o JsonItem(<<"s", "p", "e", "e", "d">>, FloatRepr(cache_data.speed))
    \o <<",", " ">>
    \o JsonItem(<<"t", "e", "x", "t">>, JsonString(cache_data.text))
    \o <<",", " ">>
    \o JsonItem(<<"v", "o", "i", "c", "e">>, JsonString(cache_data.voice))
    \o <<"}">>

\* hashlib.md5(...).hexdigest(), taken to be free of collisions: the digest
\* is written as its preimage
md5_hexdigest(s) == [md5 |-> s]

\* the cache key with one request field left out of cache_data
KeyWithoutEmotion(self, text) ==
    md5_hexdigest(json_dumps([text |-> text, voice |-> self.settings.voice,
                              emotion |-> neutral, speed |-> self.settings.speed,
                              format |-> self.settings.format]))

\* OrpheusEngine._generate_cache_key
_generate_cache_key(self, text) ==
    md5_hexdigest(json_dumps([text |-> text, voice |-> self.settings.voice,
                              emotion |-> self.settings.emotion,
                              speed |-> self.settings.speed,
                              format |-> self.settings.format]))

\* a cache file name that depends on a counter of the engine
CacheFileByCounter(self, text) ==
    [key |-> <<_generate_cache_key(self, text), self.stats.requests_total>>,
     ext |-> self.settings.format]

\* self.cache_dir / f"{cache_key}.{format}"
cache_file(self, text) ==
    [key |-> _generate_cache_key(self, text), ext |-> self.settings.format]

-----------------------------------------------------------------------------
(* Token extraction *)

TokenPrefix == <<"<", "c", "u", "s", "t", "o", "m", "_", "t", "o", "k", "e", "n", "_">>

DigitVal(c) == CHOOSE n \in 0..9 : DigitChar(n) = c

RECURSIVE ParseInt(_, _)
\* int() of a run of digits
ParseInt(ds, acc) ==
    IF ds = <<>> THEN acc ELSE ParseInt(Tail(ds), 10 * acc + DigitVal(Head(ds)))

RECURSIVE findall(_, _)
\* re.findall(r'<custom_token_(\d+)>', s), from index i on
findall(s, i) ==
    IF i > Len(s) THEN <<>>
    ELSE LET d == i + Len(TokenPrefix)
             k == DigitsEnd(s, d)
         IN  IF MatchAt(s, i, TokenPrefix) /\ k > d /\ k <= Len(s) /\ s[k] = ">"
             THEN <<SubSeq(s, d, k - 1)>> \o findall(s, k + 1)
             ELSE findall(s, i + 1)

\* the digits int() accepts in a string before it raises ValueError (the
\* interpreter's default)
int_max_str_digits == 4300

\* int(token_num) raises ValueError
IntRaises(token_num) == Len(token_num) > int_max_str_digits

\* the conversion without the modulus
ConvertNoWrap(token_id) == token_id - 32000

\* line 220: (token_id - 32000) % 4096, the modulus non-negative
ConvertId(token_id) == (token_id - 32000) % 4096

RECURSIVE ConvertTokens(_)
\* lines 216-224: the loop over the matches; a ValueError skips the match
ConvertTokens(nums) ==
    IF nums = <<>> THEN <<>>
    ELSE IF IntRaises(Head(nums)) THEN ConvertTokens(Tail(nums))
    ELSE LET converted_id == ConvertId(ParseInt(Head(nums), 0))
         IN  (IF 0 <= converted_id /\ converted_id <= 4096
              THEN <<converted_id>> ELSE <<>>) \o ConvertTokens(Tail(nums))

\* "not x" for x an Optional[str]: <<>> is None, <<s>> is the string s
Falsy(x) == x = <<>> \/ x[1] = <<>>

\* OrpheusEngine._extract_custom_tokens
_extract_custom_tokens(token_response) ==
    IF Falsy(token_response) THEN <<>>
    ELSE ConvertTokens(findall(token_response[1], 1))

-----------------------------------------------------------------------------
(* The fallback tokens.  The md5 prefix and the generator of the random     *)
(* module are library code: a small hash and a small linear congruential    *)
(* generator stand for them.                                                *)

Alphabet ==
    <<" ", "\n", "\t", "SOH", "ELLIPSIS", "DEG", "BQ", "<", ">", "*", "\"", "'",
      "\\", ".", "%", "0", "1", "2", "3", "4", "5", "6", "7", "8", "9", "_",
      "a", "b", "c", "d", "e", "f", "g", "h", "i", "j", "k", "l", "m", "n", "o",
      "p", "q", "r", "s", "t", "u", "v", "w", "x", "y", "z", "D", "P", "S", "C">>

Ord(c) == CHOOSE i \in 1..Len(Alphabet) : Alphabet[i] = c

RngModulus == 65537

RECURSIVE SeedOf(_, _)
\* int(hashlib.md5(seed_text.encode()).hexdigest()[:8], 16)
SeedOf(s, acc) ==
    IF s = <<>> THEN acc ELSE SeedOf(Tail(s), (acc * 31 + Ord(Head(s))) % RngModulus)

\* one step of the generator
RngNext(x) == (x * 75 + 74) % RngModulus

\* random.randint(a, b) on generator state x
RandInt(x, a, b) == a + (x % (b - a + 1))

\* a text taken to have no words
NoWords(s, i) == 0

RECURSIVE WordCount(_, _)
\* len(text.split())
WordCount(s, i) ==
    IF i > Len(s) THEN 0
    ELSE (IF ~IsSpace(s[i]) /\ (i = 1 \/ IsSpace(s[i - 1])) THEN 1 ELSE 0)
         + WordCount(s, i + 1)

RECURSIVE DrawTokens(_, _)
\* n draws of random.randint(0, 4095) from state x: <<tokens, final state>>
DrawTokens(x, n) ==
    IF n = 0 THEN <<<<>>, x>>
    ELSE LET x1 == RngNext(x)
             rest == DrawTokens(x1, n - 1)
         IN  <<<<RandInt(x1, 0, 4095)>> \o rest[1], rest[2]>>

\* the token draws without random.seed: they start from the state the shared
\* generator is in
UnseededTokens(self, text) ==
    LET x1 == RngNext(rng)
        num_tokens == WordCount(text, 1) * RandInt(x1, 10, 20)
    IN  DrawTokens(x1, num_tokens)

\* OrpheusEngine._generate_simulated_tokens: <<tokens, generator state>>
_generate_simulated_tokens(self, text) ==
    LET seed == SeedOf(text \o <<"_">> \o self.settings.voice, 7)
        x1 == RngNext(seed)
        num_tokens == WordCount(text, 1) * RandInt(x1, 10, 20)
    IN  DrawTokens(x1, num_tokens)

-----------------------------------------------------------------------------
(* Synthesis *)

chunk_size == 50

\* ten milliseconds per token instead of twenty
SamplesAtTenMs(sample_rate, n) == (sample_rate * n) \div 100

\* int(sample_rate * (n * 0.02)) in double arithmetic, for the valid rates
\* and n < 205: the exact quotient, but one less for 48000 and n = 29, 58,
\* 116, where the product comes out just under the integer
ChunkSamples(sample_rate, n) ==
    IF sample_rate = 48000 /\ n \in {29, 58, 116}
    THEN (sample_rate * n) \div 50 - 1
    ELSE (sample_rate * n) \div 50

RECURSIVE Sum(_)
Sum(s) == IF s = <<>> THEN 0 ELSE Head(s) + Sum(Tail(s))

Min(a, b) == IF a < b THEN a ELSE b

RECURSIVE AudioChunks(_, _, _)
\* the loop of _convert_tokens_to_audio: per chunk, its tone and its samples
AudioChunks(tokens, i, sample_rate) ==
    IF i > Len(tokens) THEN <<>>
    ELSE LET chunk == SubSeq(tokens, i, Min(i + chunk_size - 1, Len(tokens)))
         IN  <<[base_freq |-> 200 + (Sum(chunk) % 400),
                samples |-> ChunkSamples(sample_rate, Len(chunk))]>>
             \o AudioChunks(tokens, i + chunk_size, sample_rate)

RECURSIVE TotalSamples(_)
TotalSamples(chunks) ==
    IF chunks = <<>> THEN 0 ELSE Head(chunks).samples + TotalSamples(Tail(chunks))

\* a header whose data size counts samples, not bytes
WavHeaderCountsSamples(audio_data, sample_rate) ==
    LET data_size == TotalSamples(audio_data)
    IN  [kind |-> "wav", file_size |-> 36 + data_size, fmt_size |-> 16,
         audio_format |-> 1, channels |-> 1, sample_rate |-> sample_rate,
         byte_rate |-> sample_rate * 2, block_align |-> 2,
         bits_per_sample |-> 16, data_size |-> data_size, data |-> audio_data]

\* OrpheusEngine._create_wav_header: the fields of the header and the data
_create_wav_header(audio_data, sample_rate) ==
    LET channels == 1
        bits_per_sample == 16
        data_size == TotalSamples(audio_data) * 2
    IN  [kind |-> "wav",
         file_size |-> 36 + data_size,
         fmt_size |-> 16,
         audio_format |-> 1,
         channels |-> channels,
         sample_rate |-> sample_rate,
         byte_rate |-> (sample_rate * channels * bits_per_sample) \div 8,
         block_align |-> (channels * bits_per_sample) \div 8,
         bits_per_sample |-> bits_per_sample,
         data_size |-> data_size,
         data |-> audio_data]

\* OrpheusEngine._create_wav_header_raw: the same header around raw bytes,
\* here the samples of one silent stretch
_create_wav_header_raw(audio_data, sample_rate) ==
    LET channels == 1
        bits_per_sample == 16
        data_size == TotalSamples(audio_data) * 2
    IN  [kind |-> "wav",
         file_size |-> 36 + data_size,
         fmt_size |-> 16,
         audio_format |-> 1,
         channels |-> channels,
         sample_rate |-> sample_rate,
         byte_rate |-> (sample_rate * channels * bits_per_sample) \div 8,
         block_align |-> (channels * bits_per_sample) \div 8,
         bits_per_sample |-> bits_per_sample,
         data_size |-> data_size,
         data |-> audio_data]

\* OrpheusEngine._convert_tokens_to_audio: <<>> is None.  With numpy the
\* chunks are tones; without it the whole stream is one stretch of silence
\* (base_freq 0) of int(sample_rate * (len(tokens) * 0.02)) samples
_convert_tokens_to_audio(self, tokens) ==
    IF tokens = <<>> THEN <<>>
    ELSE IF np
    THEN <<_create_wav_header(AudioChunks(tokens, 1, self.settings.sample_rate),
                              self.settings.sample_rate)>>
    ELSE LET num_samples == ChunkSamples(self.settings.sample_rate, Len(tokens))
         IN  <<_create_wav_header_raw(<<[base_freq |-> 0, samples |-> num_samples]>>,
                                      self.settings.sample_rate)>>

-----------------------------------------------------------------------------
(* The engine: generate_speech, one step per statement that reads or        *)
(* writes shared state (the statistics, the cache, the output files).       *)

MaxRequests == 2
MaxTextLength == 4

AllThreads == {1, 2}

OutPaths == {"out1", "out2"}

\* the content of a file that was opened for writing and not written
EmptyFile == [kind |-> "empty"]

\* the texts callers pass
InputTexts ==
    {<<>>, <<" ", "\n">>, <<"<", "b", ">">>, <<"a">>,
     <<"a", " ", "b", "c", "d", "e">>, <<"C", "i", "a", "o">>}

Marker(digits) == TokenPrefix \o digits \o <<">">>

\* what the generation endpoint may answer: no answer (an error, a timeout,
\* a bad status), or a completion
EndpointResults ==
    {[ok |-> FALSE, text |-> <<>>],
     [ok |-> TRUE, text |-> <<>>],
     [ok |-> TRUE, text |-> <<"o", "k">>],
     [ok |-> TRUE, text |-> Marker(<<"3", "6", "8", "6", "4">>)
                            \o Marker(<<"3", "2", "0", "5", "0">>)]}

\* the settings engines are built from
EngineSettings ==
    [voice : {tara, alex}, emotion : {neutral}, speed : {10}, format : {wav},
     sample_rate : {22050}, max_text_length : {MaxTextLength},
     audio_cache_enabled : BOOLEAN, enable_debug : {FALSE}]

DefaultSettings ==
    [voice |-> tara, emotion |-> neutral, speed |-> 10, format |-> wav,
     sample_rate |-> 22050, max_text_length |-> MaxTextLength,
     audio_cache_enabled |-> TRUE, enable_debug |-> FALSE]

\* the filesystem faults a request can meet
FsFaults == {"exists", "copy", "write", "store"}

\* the locals of a host operation that has not started
NoLocals ==
    [op |-> "none", phase |-> 0, settings |-> DefaultSettings, obj |-> 0,
     ret |-> <<>>, ok |-> FALSE, message |-> <<>>, returned |-> <<>>,
     faults |-> {}, after_save |-> FALSE, fresh |-> {}, spoke |-> FALSE,
     absent |-> FALSE]

\* the locals of a call that has not started
NoRequest ==
    [text |-> <<>>, out |-> "out1", clean |-> <<>>, cached |-> <<>>,
     resp |-> <<>>, tokens |-> <<>>, audio |-> <<>>, result |-> FALSE,
     stage |-> "Idle", calls |-> 0, faults |-> {}, hit |-> FALSE,
     fallback |-> FALSE, produced |-> <<>>, stats0 |-> ZeroStats, tmp |-> 0,
     loaded |-> FALSE, cache_read |-> FALSE, copy_tried |-> FALSE,
     store_tried |-> FALSE, cache_written |-> FALSE, synthesized |-> FALSE,
     write_tried |-> FALSE, prompt |-> <<>>]

NoPrev ==
    [valid |-> FALSE, text |-> <<>>, settings |-> DefaultSettings,
     result |-> FALSE, produced |-> <<>>, fsok |-> FALSE]

\* the engine object as the methods see it
Self == [settings |-> settings, stats |-> stats]

Idle == \A t \in AllThreads : pc[t] = "idle"

\* the places of generate_speech that increment a counter
IncPcs == {"inc_total", "inc_hits", "inc_success_hit", "inc_success",
           "inc_failed", "inc_failed_exc"}

\* the cache-hit branch counting the hit twice and no success
CounterAtHitTwice(p) ==
    CASE p = "inc_total" -> "requests_total"
      [] p \in {"inc_hits", "inc_success_hit"} -> "cache_hits"
      [] p = "inc_success" -> "requests_success"
      [] p \in {"inc_failed", "inc_failed_exc"} -> "requests_failed"

CounterAt(p) ==
    CASE p = "inc_total" -> "requests_total"
      [] p = "inc_hits" -> "cache_hits"
      [] p \in {"inc_success_hit", "inc_success"} -> "requests_success"
      [] p \in {"inc_failed", "inc_failed_exc"} -> "requests_failed"

\* the cache-hit branch without its return
AfterIncFallThrough(p) ==
    CASE p = "inc_total" -> "normalize"
      [] p = "inc_hits" -> "inc_success_hit"
      [] p = "inc_success_hit" -> "tokens_req"
      [] p = "inc_success" -> "cache_store"
      [] p \in {"inc_failed", "inc_failed_exc"} -> "done"

AfterInc(p) ==
    CASE p = "inc_total" -> "normalize"
      [] p = "inc_hits" -> "inc_success_hit"
      [] p = "inc_success_hit" -> "done"
      [] p = "inc_success" -> "cache_store"
      [] p \in {"inc_failed", "inc_failed_exc"} -> "done"

\* no handler around the place
NoHandler(p) == "escaped"

\* where an exception raised at place p of generate_speech and not caught
\* by a callee goes: the try block spans lines 80-113, and its handler is
\* line 116
OnException(p) == "inc_failed_exc"

\* the empty check left out
NeverEmptyInput(c) == FALSE

\* line 83: "if not clean_text"
IsEmptyInput(c) == c = <<>>

\* OrpheusEngine._generate_tokens_from_ollama on the endpoint's answer r:
\* the completion, or None
_generate_tokens_from_ollama(r) == IF r.ok THEN <<r.text>> ELSE <<>>

\* the test of the endpoint's result left out
NeverNoResponse(token_response) == FALSE

\* line 128: "if not token_response"
NoResponse(token_response) == Falsy(token_response)

\* the output paths a caller may pass: they are interchangeable until one
\* is in use, and "out1" stands for both until then
FreePaths ==
    IF Idle /\ \A p \in OutPaths : fs[p] = <<>> THEN {"out1"} ELSE OutPaths

\* generate_speech is called
Call(t) ==
    /\ pc[t] = "idle"
    /\ nreq < MaxRequests
    /\ \E text \in InputTexts, out \in FreePaths :
          req' = [req EXCEPT ![t] = [NoRequest EXCEPT !.text = text, !.out = out,
                                                      !.stage = "Start",
                                                      !.stats0 = stats]]
    /\ pc' = [pc EXCEPT ![t] = "inc_total"]
    /\ nreq' = nreq + 1
    /\ UNCHANGED <<np, settings, stats, cache, fs, prev, threads, rng, hostVars, fnVars>>

\* self.stats[c] += 1, the read
LoadCounter(t) ==
    /\ pc[t] \in IncPcs
    /\ ~req[t].loaded
    /\ req' = [req EXCEPT ![t].tmp = stats[CounterAt(pc[t])], ![t].loaded = TRUE]
    /\ UNCHANGED <<np, settings, stats, cache, fs, pc, prev, nreq, threads, rng, hostVars, fnVars>>

\* self.stats[c] += 1, the write
StoreCounter(t) ==
    /\ pc[t] \in IncPcs
    /\ req[t].loaded
    /\ stats' = [stats EXCEPT ![CounterAt(pc[t])] = req[t].tmp + 1]
    /\ pc' = [pc EXCEPT ![t] = AfterInc(pc[t])]
    /\ req' = [req EXCEPT
                 ![t].loaded = FALSE,
                 ![t].result = (pc[t] = "inc_success_hit") \/ req[t].result,
                 ![t].stage = IF AfterInc(pc[t]) # "done" THEN req[t].stage
                              ELSE IF pc[t] = "inc_success_hit" THEN "Done"
                              ELSE "Failed"]
    /\ UNCHANGED <<np, settings, cache, fs, prev, nreq, threads, rng, hostVars, fnVars>>

\* the over-long text with an ellipsis in place of its last kept character
TruncateWithEllipsis(text, n) == SubSeq(text, 1, n - 1) \o <<".">>

\* line 90: clean_text[:self.settings.max_text_length]
Truncate(text, n) == SubSeq(text, 1, n)

\* lines 78-90: the timestamp, clean_text, the empty check, the truncation
Normalize(t) ==
    /\ pc[t] = "normalize"
    /\ stats' = [stats EXCEPT !.last_request = "set"]
    /\ LET c == clean_text(req[t].text)
           cut == IF Len(c) > settings.max_text_length
                  THEN Truncate(c, settings.max_text_length) ELSE c
       IN  IF IsEmptyInput(c)
           THEN /\ pc' = [pc EXCEPT ![t] = "done"]
                /\ req' = [req EXCEPT ![t].stage = "Failed", ![t].result = FALSE]
           ELSE /\ pc' = [pc EXCEPT ![t] = "cache_check"]
                /\ req' = [req EXCEPT ![t].stage = "Normalized", ![t].clean = cut]
    /\ UNCHANGED <<np, settings, cache, fs, prev, nreq, threads, rng, hostVars, fnVars>>

\* lines 93-94: the cache_enabled test and _get_cached_audio
CacheCheck(t) ==
    /\ pc[t] = "cache_check"
    /\ IF ~settings.audio_cache_enabled
       THEN /\ pc' = [pc EXCEPT ![t] = "tokens_req"]
            /\ req' = [req EXCEPT ![t].stage = "CacheChecked"]
       ELSE \/ LET f == cache_file(Self, req[t].clean)
                   found == f \in DOMAIN cache
               IN  /\ pc' = [pc EXCEPT ![t] = IF found THEN "cache_copy"
                                              ELSE "tokens_req"]
                   /\ req' = [req EXCEPT ![t].stage = "CacheChecked",
                                         ![t].cache_read = TRUE,
                                         ![t].cached = IF found THEN <<f>> ELSE <<>>]
            \/ \* cache_file.exists() raises
               /\ pc' = [pc EXCEPT ![t] = OnException("cache_check")]
               /\ req' = [req EXCEPT ![t].stage = "Failed",
                                     ![t].cache_read = TRUE,
                                     ![t].faults = @ \cup {"exists"}]
    /\ UNCHANGED <<np, settings, stats, cache, fs, prev, nreq, threads, rng, hostVars, fnVars>>

\* a fault of the copy from the cache that leaves _copy_cached_file as an
\* exception
CopyFaultPropagates == OnException("cache_copy")

\* lines 430-432: _copy_cached_file catches the exception of its copy and
\* returns False; the test of line 95 fails and generate_speech goes on to
\* line 103
CopyFaultCaught == "tokens_req"

\* line 95: _copy_cached_file
CacheCopy(t) ==
    /\ pc[t] = "cache_copy"
    /\ \/ /\ fs' = [fs EXCEPT ![req[t].out] = <<cache[req[t].cached[1]]>>]
          /\ pc' = [pc EXCEPT ![t] = "inc_hits"]
          /\ req' = [req EXCEPT ![t].stage = "CacheHit", ![t].hit = TRUE,
                                ![t].copy_tried = TRUE,
                                ![t].produced = <<cache[req[t].cached[1]]>>]
       \/ \* shutil.copy2 raises: the destination is untouched or cut short
          /\ \E left \in {fs[req[t].out], <<EmptyFile>>} :
                fs' = [fs EXCEPT ![req[t].out] = left]
          /\ pc' = [pc EXCEPT ![t] = CopyFaultCaught]
          /\ req' = [req EXCEPT ![t].faults = @ \cup {"copy"},
                                ![t].copy_tried = TRUE]
    /\ UNCHANGED <<np, settings, stats, cache, prev, nreq, threads, rng, hostVars, fnVars>>

\* lines 200-205: the prompt sent to the endpoint
_format_prompt_original(text, voice) ==
    <<"<|reserved_special_token_250|>">> \o voice \o <<":", " ">> \o text
        \o <<"<|end_of_text|>", "<|reserved_special_token_251|>",
              "<|reserved_special_token_252|>", "<|reserved_special_token_248|>">>

\* lines 127-130: _generate_tokens_from_ollama and the test of its result
TokensRequest(t) ==
    /\ pc[t] = "tokens_req"
    /\ \E r \in EndpointResults :
          LET token_response == _generate_tokens_from_ollama(r)
          IN  IF NoResponse(token_response)
              THEN /\ pc' = [pc EXCEPT ![t] = "inc_failed"]
                   /\ req' = [req EXCEPT ![t].stage = "Failed",
                                         ![t].calls = @ + 1,
                                         ![t].prompt = _format_prompt_original(
                                             req[t].clean, settings.voice),
                                         ![t].faults = IF r.ok THEN @
                                                       ELSE @ \cup {"endpoint"},
                                         ![t].resp = token_response]
              ELSE /\ pc' = [pc EXCEPT ![t] = "extract"]
                   /\ req' = [req EXCEPT ![t].stage = "TokensRequested",
                                         ![t].calls = @ + 1,
                                         ![t].prompt = _format_prompt_original(
                                             req[t].clean, settings.voice),
                                         ![t].faults = IF r.ok THEN @
                                                       ELSE @ \cup {"endpoint"},
                                         ![t].resp = token_response]
    /\ UNCHANGED <<np, settings, stats, cache, fs, prev, nreq, threads, rng, hostVars, fnVars>>

\* lines 133-138: _extract_custom_tokens, the fallback, tokens_generated
Extract(t) ==
    /\ pc[t] = "extract"
    /\ LET custom_tokens == _extract_custom_tokens(req[t].resp)
           simulated == _generate_simulated_tokens(Self, req[t].clean)
           tokens == IF custom_tokens = <<>> THEN simulated[1] ELSE custom_tokens
       IN  /\ req' = [req EXCEPT ![t].stage = "TokensExtracted",
                                 ![t].tokens = tokens,
                                 ![t].fallback = custom_tokens = <<>>]
           /\ rng' = IF custom_tokens = <<>> THEN simulated[2] ELSE rng
           /\ stats' = [stats EXCEPT !.tokens_generated = Len(tokens)]
    /\ pc' = [pc EXCEPT ![t] = "synth"]
    /\ UNCHANGED <<np, settings, cache, fs, prev, nreq, threads, hostVars, fnVars>>

\* lines 141-144: _convert_tokens_to_audio and the test of its result
Synthesize(t) ==
    /\ pc[t] = "synth"
    /\ \/ LET audio_data == _convert_tokens_to_audio(Self, req[t].tokens)
          IN  IF audio_data = <<>>
              THEN /\ pc' = [pc EXCEPT ![t] = "inc_failed"]
                   /\ req' = [req EXCEPT ![t].stage = "Failed"]
              ELSE /\ pc' = [pc EXCEPT ![t] = "write_out"]
                   /\ req' = [req EXCEPT ![t].audio = audio_data,
                                         ![t].synthesized = TRUE]
       \/ \* the conversion raises and returns None
          /\ pc' = [pc EXCEPT ![t] = "inc_failed"]
          /\ req' = [req EXCEPT ![t].stage = "Failed", ![t].faults = @ \cup {"synth"}]
    /\ UNCHANGED <<np, settings, stats, cache, fs, prev, nreq, threads, rng, hostVars, fnVars>>

\* lines 147-153: the output file is written
WriteOutput(t) ==
    /\ pc[t] = "write_out"
    /\ \/ /\ fs' = [fs EXCEPT ![req[t].out] = req[t].audio]
          /\ pc' = [pc EXCEPT ![t] = "inc_success"]
          /\ req' = [req EXCEPT ![t].stage = "Synthesized", ![t].result = TRUE,
                                ![t].write_tried = TRUE,
                                ![t].produced = req[t].audio]
       \/ \* open or write raises: the file is untouched or cut short
          /\ \E left \in {fs[req[t].out], <<EmptyFile>>} :
                fs' = [fs EXCEPT ![req[t].out] = left]
          /\ pc' = [pc EXCEPT ![t] = "inc_failed"]
          /\ req' = [req EXCEPT ![t].stage = "Failed", ![t].write_tried = TRUE,
                                ![t].faults = @ \cup {"write"}]
    /\ UNCHANGED <<np, settings, stats, cache, prev, nreq, threads, rng, hostVars, fnVars>>

\* a fault of the cache copy that leaves _save_to_cache as an exception
SaveFaultPropagates == OnException("cache_store")

\* lines 448-449: _save_to_cache catches the exception of its copy, logs it
\* and returns; generate_speech goes on to line 113
SaveFaultCaught == "ret_true"

\* lines 108-109: the cache_enabled test and _save_to_cache
CacheStore(t) ==
    /\ pc[t] = "cache_store"
    /\ IF ~settings.audio_cache_enabled
       THEN /\ req' = [req EXCEPT ![t].stage = "CacheStored"]
            /\ cache' = cache
            /\ pc' = [pc EXCEPT ![t] = "ret_true"]
       ELSE LET f == cache_file(Self, req[t].clean)
            IN  \/ /\ fs[req[t].out] # <<>>
                   /\ cache' = [k \in DOMAIN cache \cup {f} |->
                                  IF k = f THEN fs[req[t].out][1] ELSE cache[k]]
                   /\ req' = [req EXCEPT ![t].stage = "CacheStored",
                                         ![t].store_tried = TRUE,
                                         ![t].cache_written = TRUE]
                   /\ pc' = [pc EXCEPT ![t] = "ret_true"]
                \/ \* shutil.copy2 raises: no cache file, or one cut short
                   /\ \/ cache' = cache
                      \/ cache' = [k \in DOMAIN cache \cup {f} |->
                                     IF k = f THEN EmptyFile ELSE cache[k]]
                   /\ req' = [req EXCEPT ![t].stage = "CacheStored",
                                         ![t].store_tried = TRUE,
                                         ![t].faults = @ \cup {"store"}]
                   /\ pc' = [pc EXCEPT ![t] = SaveFaultCaught]
    /\ UNCHANGED <<np, settings, stats, fs, prev, nreq, threads, rng, hostVars, fnVars>>

\* line 113: return success, on the generation path
ReturnSuccess(t) ==
    /\ pc[t] = "ret_true"
    /\ pc' = [pc EXCEPT ![t] = "done"]
    /\ req' = [req EXCEPT ![t].stage = "Done"]
    /\ UNCHANGED <<np, settings, stats, cache, fs, prev, nreq, threads, rng, hostVars, fnVars>>

\* the caller has control again: with the result, or with the exception
\* that escaped
Return(t) ==
    /\ pc[t] \in {"done", "escaped"}
    /\ pc' = [pc EXCEPT ![t] = "idle"]
    /\ prev' = [valid |-> TRUE, text |-> req[t].text, settings |-> settings,
                result |-> req[t].result, produced |-> req[t].produced,
                fsok |-> req[t].faults \cap FsFaults = {}]
    /\ req' = [req EXCEPT ![t] = NoRequest]
    /\ UNCHANGED <<np, settings, stats, cache, fs, nreq, threads, rng, hostVars, fnVars>>

\* OrpheusEngine.reset_stats, between requests
ResetStats ==
    /\ Idle
    /\ stats # ZeroStats
    /\ stats' = ZeroStats
    /\ UNCHANGED <<np, settings, cache, fs, pc, req, prev, nreq, threads, rng, hostVars, fnVars>>

\* OrpheusEngine.__init__: a new engine, with other settings, takes over
NewEngine ==
    /\ Idle
    /\ \E s \in EngineSettings \ {settings} : settings' = s
    /\ stats' = ZeroStats
    /\ UNCHANGED <<np, cache, fs, pc, req, prev, nreq, threads, rng, hostVars, fnVars>>

NextEngine ==
    \/ \E t \in threads : Call(t)
    \/ \E t \in threads : LoadCounter(t)
    \/ \E t \in threads : StoreCounter(t)
    \/ \E t \in threads : Normalize(t)
    \/ \E t \in threads : CacheCheck(t)
    \/ \E t \in threads : CacheCopy(t)
    \/ \E t \in threads : TokensRequest(t)
    \/ \E t \in threads : Extract(t)
    \/ \E t \in threads : Synthesize(t)
    \/ \E t \in threads : WriteOutput(t)
    \/ \E t \in threads : CacheStore(t)
    \/ \E t \in threads : ReturnSuccess(t)
    \/ \E t \in threads : Return(t)
    \/ ResetStats
    \/ NewEngine

HostIdle ==
    /\ lock = 0
    /\ global = 0
    /\ engines = <<>>
    /\ saved = DefaultSettings
    /\ hpc = [t \in AllThreads |-> "idle"]
    /\ hloc = [t \in AllThreads |-> NoLocals]
    /\ nops = 0

FnIdle ==
    /\ fin = 0
    /\ fout = <<>>

InitEngine ==
    /\ settings \in EngineSettings
    /\ stats = ZeroStats
    /\ cache = <<>>
    /\ fs = [p \in OutPaths |-> <<>>]
    /\ pc = [t \in AllThreads |-> "idle"]
    /\ req = [t \in AllThreads |-> NoRequest]
    /\ prev = NoPrev
    /\ nreq = 0
    /\ rng = 0

\* one caller at a time
Init ==
    /\ InitEngine
    /\ np \in BOOLEAN
    /\ threads = {1}
    /\ HostIdle
    /\ FnIdle

Spec == Init /\ [][NextEngine]_vars

\* the steps of generate_speech alone
NextRequests ==
    \/ \E t \in threads : Call(t)
    \/ \E t \in threads : LoadCounter(t)
    \/ \E t \in threads : StoreCounter(t)
    \/ \E t \in threads : Normalize(t)
    \/ \E t \in threads : CacheCheck(t)
    \/ \E t \in threads : CacheCopy(t)
    \/ \E t \in threads : TokensRequest(t)
    \/ \E t \in threads : Extract(t)
    \/ \E t \in threads : Synthesize(t)
    \/ \E t \in threads : WriteOutput(t)
    \/ \E t \in threads : CacheStore(t)
    \/ \E t \in threads : ReturnSuccess(t)
    \/ \E t \in threads : Return(t)

\* two threads call the same engine
InitConc ==
    /\ InitEngine
    /\ np = TRUE
    /\ settings = DefaultSettings
    /\ threads = AllThreads
    /\ HostIdle
    /\ FnIdle

SpecConc == InitConc /\ [][NextRequests]_vars

-----------------------------------------------------------------------------
(* Properties of generate_speech *)

\* the request of thread t has returned
Returned(t) == pc[t] = "done"

\* thread t's request met no filesystem fault
FsOk(t) == req[t].faults \cap FsFaults = {}

\* thread t's request repeats the last completed one, which succeeded: the
\* same text under the same settings, caching on, no filesystem fault in
\* either
Repeats(t) ==
    /\ prev.valid
    /\ prev.result
    /\ prev.fsok
    /\ prev.text = req[t].text
    /\ prev.settings = settings
    /\ settings.audio_cache_enabled
    /\ FsOk(t)

\* C1: with caching on and no filesystem fault, a request that repeats a
\* request that succeeded under the same settings is a cache hit: cache_hits
\* grows by one, its output file holds exactly the bytes the first call
\* produced, and the endpoint is not called.
CacheRoundTrip ==
    \A t \in threads :
        Returned(t) /\ Repeats(t) =>
            /\ req[t].hit
            /\ req[t].result
            /\ stats.cache_hits = req[t].stats0.cache_hits + 1
            /\ fs[req[t].out] = prev.produced
            /\ req[t].calls = 0

\* a repeated request has returned, with its output in another file than
\* the first call's
CacheRoundTripWitness ==
    \E t \in threads :
        /\ Returned(t)
        /\ Repeats(t)
        /\ req[t].hit
        /\ req[t].out = "out2"
        /\ fs["out1"] = prev.produced
        /\ prev.produced # <<>>

\* C2: after any sequence of completed requests, every request has been
\* counted once in requests_total and once in requests_success or
\* requests_failed: requests_total = requests_success + requests_failed.
RequestAccounting ==
    Idle => stats.requests_total = stats.requests_success + stats.requests_failed

\* C3: a request whose text normalizes to the empty text returns failure
\* right after normalization: the endpoint is not called, the cache is
\* neither read nor written, the output file is not touched.
EmptyInputShortCircuit ==
    \A t \in threads :
        /\ pc[t] \notin {"idle", "inc_total", "normalize"}
        /\ clean_text(req[t].text) = <<>>
        => /\ Returned(t)
           /\ ~req[t].result
           /\ req[t].calls = 0
           /\ ~req[t].cache_read
           /\ ~req[t].copy_tried
           /\ ~req[t].store_tried
           /\ ~req[t].write_tried
           /\ req[t].produced = <<>>

\* a request for a markup-only text has returned
EmptyInputWitness ==
    \E t \in threads :
        /\ Returned(t)
        /\ req[t].text = <<"<", "b", ">">>
        /\ ~req[t].result

\* C4: on a cache miss, whenever the endpoint returns a completion (whatever
\* its text, the empty text included) and nothing else fails, the request
\* ends in Done.
FallbackNeverFails ==
    \A t \in threads :
        /\ Returned(t)
        /\ req[t].calls = 1
        /\ req[t].resp # <<>>
        /\ req[t].faults = {}
        => /\ req[t].result
           /\ req[t].stage = "Done"

\* C5: on a cache miss, when the generation call fails, the request ends in
\* Failed: no tokens (extracted or fallback), no synthesis, no output file
\* written, no cache entry stored, requests_failed one higher and
\* requests_success as it was.
EndpointFailureAborts ==
    \A t \in threads :
        Returned(t) /\ "endpoint" \in req[t].faults =>
            /\ ~req[t].result
            /\ req[t].stage = "Failed"
            /\ req[t].tokens = <<>>
            /\ ~req[t].fallback
            /\ ~req[t].synthesized
            /\ ~req[t].write_tried
            /\ req[t].produced = <<>>
            /\ ~req[t].store_tried
            /\ stats.requests_failed = req[t].stats0.requests_failed + 1
            /\ stats.requests_success = req[t].stats0.requests_success

\* a request whose generation call failed has returned
EndpointFailureWitness ==
    \E t \in threads :
        /\ Returned(t)
        /\ req[t].faults = {"endpoint"}
        /\ req[t].calls = 1

\* C6: whatever fails (the endpoint, the cache read or write, the output
\* file, the synthesis), generate_speech returns its outcome: no exception
\* escapes to the caller.
NoFaultEscapes ==
    \A t \in threads :
        /\ pc[t] # "escaped"
        /\ req[t].faults # {} /\ pc[t] \notin IncPcs /\ req[t].stage = "Failed"
           => Returned(t) /\ ~req[t].result

\* a request whose cache lookup raised has returned failure
NoFaultEscapesWitness ==
    \E t \in threads :
        /\ Returned(t)
        /\ "exists" \in req[t].faults
        /\ ~req[t].result

\* C7: when requests run concurrently on one engine, after all of them have
\* returned requests_total has grown by their number.
NoLostUpdates ==
    Idle => stats.requests_total = nreq

StageEdges ==
    {<<"Idle", "Start">>, <<"Start", "Normalized">>,
     <<"Normalized", "CacheChecked">>, <<"CacheChecked", "CacheHit">>,
     <<"CacheHit", "Done">>, <<"CacheChecked", "TokensRequested">>,
     <<"TokensRequested", "TokensExtracted">>,
     <<"TokensExtracted", "Synthesized">>, <<"Synthesized", "CacheStored">>,
     <<"CacheStored", "Done">>, <<"Done", "Idle">>, <<"Failed", "Idle">>}
    \cup {<<a, "Failed">> : a \in {"Start", "Normalized", "CacheChecked",
                                  "CacheHit", "TokensRequested",
                                  "TokensExtracted", "Synthesized",
                                  "CacheStored"}}

\* one step of thread t keeps the order of the stages
StageStep(t) ==
    /\ req'[t].stage # req[t].stage => <<req[t].stage, req'[t].stage>> \in StageEdges
    /\ req'[t].calls > req[t].calls =>
          /\ req[t].calls = 0
          /\ req'[t].calls = 1
          /\ req[t].stage = "CacheChecked"
          /\ ~req[t].hit
    /\ req'[t].store_tried /\ ~req[t].store_tried =>
          /\ req[t].stage = "Synthesized"
          /\ req[t].synthesized
          /\ req[t].produced = req[t].audio
          /\ req[t].audio # <<>>
    /\ req'[t].stage = "Done" => req'[t].result
    /\ req'[t].stage = "Failed" => ~req'[t].result

\* C9: a request passes through its stages in the order Start, Normalized,
\* CacheChecked, then CacheHit and Done, or TokensRequested,
\* TokensExtracted, Synthesized, CacheStored and Done; the endpoint is called
\* at most once, and only after a cache miss; the cache store comes only
\* after the synthesis succeeded and the output file was written; Done and
\* Failed are terminal.
StageOrder == [][\A t \in threads : StageStep(t)]_vars

\* a request reached Done through the generation path, another through a
\* cache hit
StageOrderWitness ==
    \E t \in threads :
        /\ Returned(t)
        /\ req[t].stage = "Done"
        /\ req[t].hit
        /\ prev.valid
        /\ prev.result
        /\ prev.produced # <<>>

-----------------------------------------------------------------------------
(* The host glue (orpheus_cat.py): the global engine and its lock.  Threads *)
(* run the message hook, the settings-saved hook, the two debug utilities   *)
(* and direct calls of init_orpheus_engine; each statement that touches the *)
(* lock or the global is a step.                                            *)
(* An OrpheusEngine object is listed in engines from the moment it is       *)
(* allocated, with the attributes its constructor has assigned so far.      *)

MaxHostOps == 3

\* the settings the host may hold
HostSettings ==
    {DefaultSettings,
     [DefaultSettings EXCEPT !.voice = alex],
     [DefaultSettings EXCEPT !.audio_cache_enabled = FALSE],
     [DefaultSettings EXCEPT !.enable_debug = TRUE]}

\* the fields of OrpheusSettings
OrpheusSettingsFields ==
    {"ollama_url", "ollama_model", "voice", "emotion", "speed", "format",
     "mode", "enable_emotional_synthesis", "sample_rate", "bit_depth",
     "timeout_seconds", "max_text_length", "custom_voice_path",
     "voice_temperature", "enable_debug", "save_audio_files",
     "audio_cache_enabled"}

\* the hook assigns or reads orpheus_settings.enable_tts: the assignment is
\* refused and the read is an AttributeError when the model has no such field
enable_tts_raises == "enable_tts" \notin OrpheusSettingsFields

\* an object that object creation has allocated and __init__ has not touched
BlankEngine ==
    [settings |-> <<>>, cache_enabled |-> <<>>, stats |-> <<>>,
     published |-> FALSE]

\* every attribute the methods read is assigned
Constructed(e) ==
    /\ e.settings # <<>>
    /\ e.cache_enabled # <<>>
    /\ e.stats # <<>>

\* the members of the enumeration OrpheusMode
OrpheusMode == {"ollama_direct"}

\* get_effective_mode names OrpheusMode.auto: an AttributeError when the
\* enumeration has no such member
get_effective_mode_raises == "auto" \notin OrpheusMode

\* the lock taken without looking at it
LockIgnored == TRUE

\* threading.Lock: acquire succeeds only while nobody holds the lock
LockFree == lock = 0

HostStep(t, to, loc) ==
    /\ hpc' = [hpc EXCEPT ![t] = to]
    /\ hloc' = [hloc EXCEPT ![t] = loc]

\* the messages the host passes to the hook
HostMessages == {"ciao", ""}

\* the hook returns None
ReturnNone(message) == "None"

\* line 334 and the early returns: return message
ReturnMessage(message) == message

\* the locals of a hook invocation that is about to return
HookExit(l) == [l EXCEPT !.returned = <<ReturnMessage(l.message[1])>>]

\* lines 278-279: clean_text_for_tts(message) is empty; of the messages
\* here that is the empty one (line 131)
NoCleanText(message) == message = ""

\* before_cat_sends_message up to its first get_orpheus_engine; an exception
\* on the way is caught and logged, and the hook goes on to return the message.
\* The invocation notes whether a save is in progress when it starts
\* (after_save) and whether the global engine is absent for it (absent): when
\* it starts, and then by what its first get_orpheus_engine returns
HookEnter(t) ==
    /\ hpc[t] = "idle"
    /\ nops < MaxHostOps
    /\ nops' = nops + 1
    /\ \E message \in HostMessages :
          LET l == [NoLocals EXCEPT
                       !.op = "hook", !.phase = 1, !.settings = saved,
                       !.message = <<message>>,
                       !.after_save = \A u \in threads : hloc[u].op # "save",
                       !.fresh = {saved},
                       !.absent = global = 0]
          IN  IF enable_tts_raises
              THEN HostStep(t, "hook_return", HookExit(l))
              ELSE HostStep(t, "get_acquire", l)
    /\ UNCHANGED <<np, engineVars, lock, global, engines, saved, fnVars>>

\* get_plugin_status up to its get_orpheus_engine
StatusEnter(t) ==
    /\ hpc[t] = "idle"
    /\ nops < MaxHostOps
    /\ nops' = nops + 1
    /\ HostStep(t, "get_acquire", [NoLocals EXCEPT !.op = "status"])
    /\ UNCHANGED <<np, engineVars, lock, global, engines, saved, fnVars>>

\* test_tts_generation up to its init_orpheus_engine
TestEnter(t) ==
    /\ hpc[t] = "idle"
    /\ nops < MaxHostOps
    /\ nops' = nops + 1
    /\ HostStep(t, "init_acquire",
                [NoLocals EXCEPT !.op = "test",
                    !.settings = [DefaultSettings EXCEPT !.enable_debug = TRUE]])
    /\ UNCHANGED <<np, engineVars, lock, global, engines, saved, fnVars>>

\* a caller of init_orpheus_engine(settings)
InitCall(t) ==
    /\ hpc[t] = "idle"
    /\ nops < MaxHostOps
    /\ nops' = nops + 1
    /\ \E s \in HostSettings :
        HostStep(t, "init_acquire",
                 [NoLocals EXCEPT !.op = "init", !.settings = s])
    /\ UNCHANGED <<np, engineVars, lock, global, engines, saved, fnVars>>

\* the host stores new settings and calls plugin_settings_save; every hook
\* invocation in progress notes the settings stored since it started (fresh)
SaveEnter(t) ==
    /\ hpc[t] = "idle"
    /\ nops < MaxHostOps
    /\ nops' = nops + 1
    /\ \E s \in HostSettings :
        /\ saved' = s
        /\ hpc' = [hpc EXCEPT ![t] = "save_acquire"]
        /\ hloc' = [u \in AllThreads |->
                       IF u = t THEN [NoLocals EXCEPT !.op = "save"]
                       ELSE IF hloc[u].op = "hook"
                       THEN [hloc[u] EXCEPT !.fresh = @ \cup {s}]
                       ELSE hloc[u]]
    /\ UNCHANGED <<np, engineVars, lock, global, engines, fnVars>>

\* get_orpheus_engine: with _engine_lock
GetAcquire(t) ==
    /\ hpc[t] = "get_acquire"
    /\ LockFree
    /\ lock' = t
    /\ HostStep(t, "get_read", hloc[t])
    /\ UNCHANGED <<np, engineVars, global, engines, saved, nops, fnVars>>

\* get_orpheus_engine: the value of return _orpheus_engine
GetRead(t) ==
    /\ hpc[t] = "get_read"
    /\ HostStep(t, "get_release",
                [hloc[t] EXCEPT !.ret = IF global = 0 THEN <<>>
                                         ELSE <<global>>])
    /\ UNCHANGED <<np, engineVars, lock, global, engines, saved, nops, fnVars>>

\* get_orpheus_engine: leaving the with block
GetRelease(t) ==
    /\ hpc[t] = "get_release"
    /\ lock' = 0
    /\ HostStep(t, "get_return", hloc[t])
    /\ UNCHANGED <<np, engineVars, global, engines, saved, nops, fnVars>>

\* the engine e serves a request: generate_speech, seen here as the request
\* it counts
Served(e) == [engines EXCEPT ![e].stats[1].requests_total = @ + 1]

\* the caller after get_orpheus_engine has returned: the hook initialises
\* the engine when it got None the first time, and otherwise calls
\* engine.generate_speech (an AttributeError on None); test_tts_generation
\* calls it on the engine it got; get_plugin_status only reports
GetReturn(t) ==
    /\ hpc[t] = "get_return"
    /\ LET l == hloc[t] IN
       CASE l.op = "hook" /\ l.phase = 1 /\ l.ret = <<>> ->
                /\ HostStep(t, "init_acquire", [l EXCEPT !.absent = TRUE])
                /\ engines' = engines
         [] l.op = "hook" /\ l.ret # <<>> ->
                /\ HostStep(t, "hook_return",
                            HookExit([l EXCEPT
                                !.spoke = ~NoCleanText(l.message[1]),
                                !.absent = IF l.phase = 1 THEN FALSE ELSE @]))
                /\ engines' = IF NoCleanText(l.message[1]) THEN engines
                              ELSE Served(l.ret[1])
         [] l.op = "test" /\ l.ret # <<>> ->
                /\ HostStep(t, "idle", NoLocals)
                /\ engines' = Served(l.ret[1])
         [] l.op = "hook" /\ l.phase # 1 /\ l.ret = <<>> ->
                /\ HostStep(t, "hook_return", HookExit(l))
                /\ engines' = engines
         [] OTHER ->
                /\ HostStep(t, "idle", NoLocals)
                /\ engines' = engines
    /\ UNCHANGED <<np, engineVars, lock, global, saved, nops, fnVars>>

\* init_orpheus_engine: with _engine_lock
InitAcquire(t) ==
    /\ hpc[t] = "init_acquire"
    /\ LockFree
    /\ lock' = t
    /\ HostStep(t, "ctor_fields", hloc[t])
    /\ UNCHANGED <<np, engineVars, global, engines, saved, nops, fnVars>>

\* OrpheusEngine.__init__: settings, cache_dir, cache_enabled
CtorFields(t) ==
    /\ hpc[t] = "ctor_fields"
    /\ engines' = Append(engines,
           [BlankEngine EXCEPT
               !.settings = <<hloc[t].settings>>,
               !.cache_enabled = <<hloc[t].settings.audio_cache_enabled>>])
    /\ HostStep(t, "ctor_mkdir", [hloc[t] EXCEPT !.obj = Len(engines) + 1])
    /\ UNCHANGED <<np, engineVars, lock, global, saved, nops, fnVars>>

\* OrpheusEngine.__init__: the cache directory, whose creation may fail
CtorMkdir(t) ==
    /\ hpc[t] = "ctor_mkdir"
    /\ \E failed \in BOOLEAN :
        IF engines[hloc[t].obj].cache_enabled = <<TRUE>> /\ failed
        THEN HostStep(t, "init_unwind", [hloc[t] EXCEPT !.faults = {"mkdir"}])
        ELSE HostStep(t, "ctor_stats", hloc[t])
    /\ UNCHANGED <<np, engineVars, lock, global, engines, saved, nops, fnVars>>

\* OrpheusEngine.__init__: the statistics
CtorStats(t) ==
    /\ hpc[t] = "ctor_stats"
    /\ engines' = [engines EXCEPT ![hloc[t].obj].stats = <<ZeroStats>>]
    /\ HostStep(t, "ctor_log", hloc[t])
    /\ UNCHANGED <<np, engineVars, lock, global, saved, nops, fnVars>>

\* OrpheusEngine.__init__: the debug line, which formats the settings
CtorLog(t) ==
    /\ hpc[t] = "ctor_log"
    /\ IF hloc[t].settings.enable_debug /\ get_effective_mode_raises
       THEN HostStep(t, "init_unwind", hloc[t])
       ELSE HostStep(t, "init_assign", hloc[t])
    /\ UNCHANGED <<np, engineVars, lock, global, engines, saved, nops, fnVars>>

\* init_orpheus_engine: _orpheus_engine = create_engine(settings)
InitAssign(t) ==
    /\ hpc[t] = "init_assign"
    /\ global' = hloc[t].obj
    /\ engines' = [engines EXCEPT ![hloc[t].obj].published = TRUE]
    /\ HostStep(t, "init_release", hloc[t])
    /\ UNCHANGED <<np, engineVars, lock, saved, nops, fnVars>>

\* init_orpheus_engine: leaving the with block, return True
InitRelease(t) ==
    /\ hpc[t] = "init_release"
    /\ lock' = 0
    /\ HostStep(t, "init_return", [hloc[t] EXCEPT !.ok = TRUE])
    /\ UNCHANGED <<np, engineVars, global, engines, saved, nops, fnVars>>

\* init_orpheus_engine: the exception leaves the with block, return False
InitUnwind(t) ==
    /\ hpc[t] = "init_unwind"
    /\ lock' = 0
    /\ HostStep(t, "init_return", [hloc[t] EXCEPT !.ok = FALSE])
    /\ UNCHANGED <<np, engineVars, global, engines, saved, nops, fnVars>>

\* the caller after init_orpheus_engine has returned
InitReturn(t) ==
    /\ hpc[t] = "init_return"
    /\ IF hloc[t].ok /\ hloc[t].op \in {"hook", "test"}
       THEN HostStep(t, "get_acquire", [hloc[t] EXCEPT !.phase = 2])
       ELSE IF hloc[t].op = "hook"
       THEN HostStep(t, "hook_return", HookExit(hloc[t]))
       ELSE HostStep(t, "idle", NoLocals)
    /\ UNCHANGED <<np, engineVars, lock, global, engines, saved, nops, fnVars>>

\* before_cat_sends_message hands its result to the host
HookReturn(t) ==
    /\ hpc[t] = "hook_return"
    /\ HostStep(t, "idle", NoLocals)
    /\ UNCHANGED <<np, engineVars, lock, global, engines, saved, nops, fnVars>>

\* plugin_settings_save: with _engine_lock
SaveAcquire(t) ==
    /\ hpc[t] = "save_acquire"
    /\ LockFree
    /\ lock' = t
    /\ HostStep(t, "save_clear", hloc[t])
    /\ UNCHANGED <<np, engineVars, global, engines, saved, nops, fnVars>>

\* plugin_settings_save: _orpheus_engine = None
SaveClear(t) ==
    /\ hpc[t] = "save_clear"
    /\ global' = 0
    /\ HostStep(t, "save_release", hloc[t])
    /\ UNCHANGED <<np, engineVars, lock, engines, saved, nops, fnVars>>

\* plugin_settings_save: leaving the with block
SaveRelease(t) ==
    /\ hpc[t] = "save_release"
    /\ lock' = 0
    /\ HostStep(t, "idle", NoLocals)
    /\ UNCHANGED <<np, engineVars, global, engines, saved, nops, fnVars>>

NextHost ==
    \/ \E t \in threads : HookEnter(t)
    \/ \E t \in threads : StatusEnter(t)
    \/ \E t \in threads : TestEnter(t)
    \/ \E t \in threads : InitCall(t)
    \/ \E t \in threads : SaveEnter(t)
    \/ \E t \in threads : GetAcquire(t)
    \/ \E t \in threads : GetRead(t)
    \/ \E t \in threads : GetRelease(t)
    \/ \E t \in threads : GetReturn(t)
    \/ \E t \in threads : InitAcquire(t)
    \/ \E t \in threads : CtorFields(t)
    \/ \E t \in threads : CtorMkdir(t)
    \/ \E t \in threads : CtorStats(t)
    \/ \E t \in threads : CtorLog(t)
    \/ \E t \in threads : InitAssign(t)
    \/ \E t \in threads : InitRelease(t)
    \/ \E t \in threads : InitUnwind(t)
    \/ \E t \in threads : InitReturn(t)
    \/ \E t \in threads : HookReturn(t)
    \/ \E t \in threads : SaveAcquire(t)
    \/ \E t \in threads : SaveClear(t)
    \/ \E t \in threads : SaveRelease(t)

\* the plugin is loaded: no engine yet, any settings, two host threads
InitHost ==
    /\ InitEngine
    /\ np = TRUE
    /\ settings = DefaultSettings
    /\ threads = AllThreads
    /\ lock = 0
    /\ global = 0
    /\ engines = <<>>
    /\ saved \in HostSettings
    /\ hpc = [t \in AllThreads |-> "idle"]
    /\ hloc = [t \in AllThreads |-> NoLocals]
    /\ nops = 0
    /\ FnIdle

SpecHost == InitHost /\ [][NextHost]_vars

-----------------------------------------------------------------------------
(* Properties of the global engine *)

\* the statements of init_orpheus_engine that create and assign the engine
Creating(t) ==
    hpc[t] \in {"ctor_fields", "ctor_mkdir", "ctor_stats", "ctor_log",
                "init_assign"}

\* the statements inside one of the three with _engine_lock blocks
InWith(t) ==
    \/ Creating(t)
    \/ hpc[t] \in {"init_release", "init_unwind", "get_read", "get_release",
                   "save_clear", "save_release"}

\* the engine a finished get_orpheus_engine handed to thread t
Got(t) == hpc[t] = "get_return" /\ hloc[t].ret # <<>>

\* C8: engine (re)initialisation is mutually exclusive: at most one thread
\* at a time creates and assigns the global engine, nobody reads or clears
\* the global meanwhile, and the global engine and every engine returned by
\* get_orpheus_engine is None or an engine that was fully constructed and
\* then assigned to the global, never a partially initialised one.
InitMutuallyExclusive ==
    /\ \A t, u \in threads : Creating(t) /\ InWith(u) => t = u
    /\ \A t \in threads : InWith(t) => lock = t
    /\ global # 0 => /\ Constructed(engines[global])
                     /\ engines[global].published
    /\ \A t \in threads :
          Got(t) => /\ Constructed(engines[hloc[t].ret[1]])
                    /\ engines[hloc[t].ret[1]].published

\* one thread is inside the constructor of a new engine, not yet complete,
\* while the other has just been handed the previous engine by
\* get_orpheus_engine and waits or proceeds
InitMutuallyExclusiveWitness ==
    \E t, u \in threads :
        /\ t # u
        /\ hpc[t] = "ctor_stats"
        /\ ~Constructed(engines[hloc[t].obj])
        /\ hpc[u] = "get_return"
        /\ hloc[u].ret # <<>>
        /\ hloc[u].ret[1] # hloc[t].obj

-----------------------------------------------------------------------------
(* The cache key as a function: two requests, each an engine (its settings *)
(* and its statistics) and a normalized text.  The key is computed for     *)
(* both at lookup (_get_cached_audio) and again for the first at store     *)
(* (_save_to_cache), after generate_speech has moved the statistics.       *)

\* normalized texts
KeyTexts == {<<"a">>, <<"a", "b">>, <<"a", "\"">>}

\* settings that differ in the key's fields and in others
KeySettings ==
    [voice : {tara, alex}, emotion : {neutral, happy}, speed : {10, 12},
     format : {wav, mp3}, sample_rate : {22050, 48000},
     max_text_length : {MaxTextLength}, audio_cache_enabled : {TRUE},
     enable_debug : {FALSE}]

\* statistics of a fresh engine and of one that has served a request
KeyStats ==
    {ZeroStats,
     [ZeroStats EXCEPT !.requests_total = 1, !.requests_success = 1,
                       !.tokens_generated = 2, !.last_request = "t1"]}

KeyRequests == [text : KeyTexts, settings : KeySettings, stats : KeyStats]

\* the engine of request r as its methods see it
EngineOf(r) == [settings |-> r.settings, stats |-> r.stats]

\* the engine of request r when generate_speech reaches _save_to_cache
EngineAtStore(r) ==
    [settings |-> r.settings,
     stats |-> [r.stats EXCEPT !.requests_total = @ + 1,
                               !.requests_success = @ + 1,
                               !.tokens_generated = @ + 2,
                               !.last_request = "t2"]]

\* _get_cached_audio: cache_key = self._generate_cache_key(text)
KeyAtLookup ==
    /\ fout = <<>>
    /\ fout' = <<_generate_cache_key(EngineOf(fin.a), fin.a.text),
                 _generate_cache_key(EngineOf(fin.b), fin.b.text)>>
    /\ UNCHANGED <<np, engineVars, hostVars, fin>>

\* _save_to_cache: cache_key = self._generate_cache_key(text)
KeyAtStore ==
    /\ Len(fout) = 2
    /\ fout' = Append(fout, _generate_cache_key(EngineAtStore(fin.a), fin.a.text))
    /\ UNCHANGED <<np, engineVars, hostVars, fin>>

NextFn ==
    \/ KeyAtLookup
    \/ KeyAtStore

InitFn ==
    /\ InitEngine
    /\ np = TRUE
    /\ settings = DefaultSettings
    /\ threads = {1}
    /\ HostIdle
    /\ fin \in [a : KeyRequests, b : KeyRequests]
    /\ fout = <<>>

SpecFn == InitFn /\ [][NextFn]_vars

\* the five fields the key is made of
KeyFields(r) ==
    <<r.text, r.settings.voice, r.settings.emotion, r.settings.speed,
      r.settings.format>>

\* C10: the cache key is a function of exactly (normalized text, voice,
\* emotion, speed, format): two requests get the same key if and only if
\* they agree on the five fields, whatever their statistics and other
\* settings, and the key computed at store equals the key computed at lookup.
DeterministicCacheKey ==
    /\ Len(fout) >= 2 => (fout[1] = fout[2] <=> KeyFields(fin.a) = KeyFields(fin.b))
    /\ Len(fout) = 3 => fout[3] = fout[1]

\* two requests equal on the five fields and different in statistics and in
\* sample rate have got the same key, at lookup and at store
DeterministicCacheKeyWitness ==
    /\ Len(fout) = 3
    /\ KeyFields(fin.a) = KeyFields(fin.b)
    /\ fin.a.stats # fin.b.stats
    /\ fin.a.settings.sample_rate # fin.b.settings.sample_rate
    /\ fin.a.settings.emotion = happy
    /\ fout[1] = fout[2]
    /\ fout[3] = fout[1]

-----------------------------------------------------------------------------
(* Properties of the cache *)

\* C11: cache entry lifecycle: a cache entry is created only by a request
\* whose synthesis succeeded, an existing entry never changes its content,
\* and no operation removes an entry, so the set of cached keys only grows
\* over requests and statistics resets.
CacheEntryLifecycle ==
    [][/\ \A k \in DOMAIN cache : k \in DOMAIN cache' /\ cache'[k] = cache[k]
       /\ \A k \in DOMAIN cache' \ DOMAIN cache :
             \E t \in threads : pc[t] = "cache_store" /\ req[t].synthesized]_vars

\* C12: a cache write failure is not fatal: when the synthesis succeeded, the
\* output file was written and storing into the cache failed, the request
\* returns success, requests_success is incremented, requests_failed is not,
\* and the output file keeps the synthesized audio.
CacheWriteFailureNonFatal ==
    \A t \in threads :
        Returned(t) /\ "store" \in req[t].faults =>
            /\ req[t].result
            /\ req[t].stage = "Done"
            /\ stats.requests_success = req[t].stats0.requests_success + 1
            /\ stats.requests_failed = req[t].stats0.requests_failed
            /\ fs[req[t].out] = req[t].audio

\* a request has returned after its store into the cache failed, its audio
\* synthesized and written
CacheWriteFailureWitness ==
    \E t \in threads :
        /\ Returned(t)
        /\ "store" \in req[t].faults
        /\ req[t].synthesized
        /\ req[t].audio # <<>>
        /\ fs[req[t].out] = req[t].audio
        /\ req[t].result

\* C13: a cache read failure is a miss: when the entry of the request's key
\* exists and copying it to the destination fails, the request is not failed
\* by that and is not counted as a cache hit; it goes on with the endpoint
\* call, and it fails only after that call; once it has returned, cache_hits
\* is what it was, the endpoint was called once, and the result is that of
\* the generation path: success exactly when the audio was synthesized and
\* written to the output file.
CacheReadFailureIsMiss ==
    \A t \in threads :
        "copy" \in req[t].faults =>
            /\ req[t].cached # <<>>
            /\ ~req[t].hit
            /\ pc[t] \notin {"inc_hits", "inc_success_hit"}
            /\ req[t].stage = "Failed" => req[t].calls = 1
            /\ Returned(t) =>
                /\ req[t].calls = 1
                /\ stats.cache_hits = req[t].stats0.cache_hits
                /\ req[t].result <=> (req[t].synthesized /\ "write" \notin req[t].faults)
                /\ req[t].result => fs[req[t].out] = req[t].audio

\* a request whose copy from the cache failed has returned success with
\* newly synthesized audio
CacheReadFailureWitness ==
    \E t \in threads :
        /\ Returned(t)
        /\ "copy" \in req[t].faults
        /\ req[t].result
        /\ req[t].synthesized
        /\ req[t].calls = 1
        /\ fs[req[t].out] = req[t].audio

\* thread t has finished a request that missed the cache, met no fault and
\* got a completion from the endpoint
CleanMiss(t) ==
    /\ pc[t] = "done"
    /\ req[t].clean # <<>>
    /\ req[t].cache_read
    /\ req[t].cached = <<>>
    /\ req[t].faults = {}
    /\ req[t].resp # <<>> /\ req[t].resp[1] # <<>>

\* C14: concurrent stores for one key: when two requests with the same
\* normalized text and settings have run concurrently, both having found no
\* cache entry for their key, both have completed successfully and the cache
\* holds one entry for the key, whose content is the complete audio that the
\* last store wrote and is identical to what the other request stored.
ConcurrentStoresAgree ==
    \A t, u \in threads :
        /\ t # u
        /\ CleanMiss(t) /\ CleanMiss(u)
        /\ req[t].clean = req[u].clean
        /\ req[t].out # req[u].out
        => /\ req[t].result /\ req[u].result
           /\ cache_file(Self, req[t].clean) \in DOMAIN cache
           /\ cache[cache_file(Self, req[t].clean)] = req[t].audio[1]
           /\ cache[cache_file(Self, req[u].clean)] = req[u].audio[1]

-----------------------------------------------------------------------------
(* Token extraction as a function: a raw text is a sequence of pieces, each *)
(* a well-formed marker, a malformed one or other text.                     *)

MaxMarkers == 2

RECURSIVE Str(_)
\* the decimal digits of n
Str(n) == IF n < 10 THEN <<DigitChar(n)>>
          ELSE Str(n \div 10) \o <<DigitChar(n % 10)>>

\* the residue of n - 32000 modulo 4096 that lies in 0..4095
Residue(n) == CHOOSE r \in 0..4095 : \E q \in -8..16 : n - 32000 = 4096 * q + r

\* the marker ids of the raw texts: below, at and above 32000
MarkerIds == {0, 31999, 32000, 32050, 36095, 36096, 36864, 99999}

\* a piece of raw text: its characters, the tokens its markers stand for,
\* and the digits of its longest marker
MarkerPiece(n) ==
    [text |-> Marker(Str(n)), tokens |-> <<Residue(n)>>, digits |-> Len(Str(n))]

ShortPieces ==
    {MarkerPiece(n) : n \in MarkerIds}
    \cup {[text |-> Marker(<<"0">> \o Str(32050)), tokens |-> <<50>>, digits |-> 6],
          [text |-> <<"x">>, tokens |-> <<>>, digits |-> 0],
          [text |-> TokenPrefix \o <<">">>, tokens |-> <<>>, digits |-> 0],
          [text |-> TokenPrefix \o <<"1", "2">>, tokens |-> <<>>, digits |-> 0]}

\* a well-formed marker whose id is 4301 digits "1"; that id less 32000 has
\* the residue 1223 modulo 4096
LongPiece ==
    [text |-> Marker([i \in 1..(int_max_str_digits + 1) |-> "1"]),
     tokens |-> <<1223>>, digits |-> int_max_str_digits + 1]

ExtractInputs ==
    UNION {[1..n -> ShortPieces] : n \in 0..MaxMarkers}
    \cup {<<LongPiece>>, <<MarkerPiece(32050), LongPiece>>,
          <<LongPiece, MarkerPiece(0)>>}

RECURSIVE RawText(_)
\* the raw text made of the pieces
RawText(pieces) ==
    IF pieces = <<>> THEN <<>> ELSE Head(pieces).text \o RawText(Tail(pieces))

\* _extract_custom_tokens(token_response) is called on the raw text
ApplyExtract ==
    /\ fout = <<>>
    /\ fout' = <<_extract_custom_tokens(<<RawText(fin)>>)>>
    /\ UNCHANGED <<np, engineVars, hostVars, fin>>

InitExtract ==
    /\ InitEngine
    /\ np = TRUE
    /\ settings = DefaultSettings
    /\ threads = {1}
    /\ HostIdle
    /\ fin \in ExtractInputs
    /\ fout = <<>>

SpecExtract == InitExtract /\ [][ApplyExtract]_vars

RECURSIVE MarkerTokens(_, _)
\* the tokens of the markers of at most maxdigits digits, in order
MarkerTokens(pieces, maxdigits) ==
    IF pieces = <<>> THEN <<>>
    ELSE (IF Head(pieces).digits <= maxdigits THEN Head(pieces).tokens ELSE <<>>)
         \o MarkerTokens(Tail(pieces), maxdigits)

\* the statement of C15 without a bound on the digits of a marker: every
\* well-formed marker yields its token
ExtractionKeepsEveryMarker ==
    fout # <<>> => fout[1] = MarkerTokens(fin, int_max_str_digits + 1)

\* C15 (amended): for every raw text, _extract_custom_tokens returns, in
\* order of appearance and keeping duplicates, the value (N - 32000) mod 4096
\* for each marker <custom_token_N> of at most 4300 digits; every returned
\* token lies in 0..4095, also for N < 32000; a marker of more digits is
\* skipped without error; text with no marker yields the empty stream.
ExtractionInOrder ==
    fout # <<>> =>
        /\ fout[1] = MarkerTokens(fin, int_max_str_digits)
        /\ \A i \in 1..Len(fout[1]) : fout[1][i] \in 0..4095

\* two equal markers with an id below 32000 have yielded two equal tokens
ExtractionInOrderWitness ==
    /\ fout # <<>>
    /\ Len(fin) = 2
    /\ fin[1] = MarkerPiece(0)
    /\ fin[2] = MarkerPiece(0)
    /\ fout[1] = <<768, 768>>

-----------------------------------------------------------------------------
(* The fallback tokens as a function: _generate_simulated_tokens is called  *)
(* for request a, then other calls use the shared generator, then it is     *)
(* called for request b.                                                    *)

MaxOtherCalls == 1

FallbackTexts == {<<"a">>, <<"a", " ", "b">>}

\* requests that differ in text and voice and in what is neither
FallbackRequests ==
    [text : FallbackTexts,
     settings : {[DefaultSettings EXCEPT !.voice = v, !.emotion = e] :
                    v \in {tara, alex}, e \in {neutral, happy}},
     stats : KeyStats]

NoCalls == [first |-> <<>>, others |-> 0, second |-> <<>>]

\* line 136: _generate_simulated_tokens for request a
FirstFallback ==
    /\ fout.first = <<>>
    /\ LET simulated == _generate_simulated_tokens(EngineOf(fin.a), fin.a.text)
       IN  /\ fout' = [fout EXCEPT !.first = <<simulated[1]>>]
           /\ rng' = simulated[2]
    /\ UNCHANGED <<np, settings, stats, cache, fs, pc, req, prev, nreq, threads,
                   hostVars, fin>>

\* another request's fallback in between: it seeds and draws from the same
\* generator
OtherFallback ==
    /\ fout.first # <<>> /\ fout.second = <<>>
    /\ fout.others < MaxOtherCalls
    /\ \E r \in FallbackRequests :
          rng' = _generate_simulated_tokens(EngineOf(r), r.text)[2]
    /\ fout' = [fout EXCEPT !.others = @ + 1]
    /\ UNCHANGED <<np, settings, stats, cache, fs, pc, req, prev, nreq, threads,
                   hostVars, fin>>

\* line 136: _generate_simulated_tokens for request b
SecondFallback ==
    /\ fout.first # <<>> /\ fout.second = <<>>
    /\ LET simulated == _generate_simulated_tokens(EngineOf(fin.b), fin.b.text)
       IN  /\ fout' = [fout EXCEPT !.second = <<simulated[1]>>]
           /\ rng' = simulated[2]
    /\ UNCHANGED <<np, settings, stats, cache, fs, pc, req, prev, nreq, threads,
                   hostVars, fin>>

NextFallback ==
    \/ FirstFallback
    \/ OtherFallback
    \/ SecondFallback

InitFallback ==
    /\ InitEngine
    /\ np = TRUE
    /\ settings = DefaultSettings
    /\ threads = {1}
    /\ HostIdle
    /\ fin \in [a : FallbackRequests, b : FallbackRequests]
    /\ fout = NoCalls

SpecFallback == InitFallback /\ [][NextFallback]_vars

-----------------------------------------------------------------------------
(* Properties of the token stream inside generate_speech *)

\* C17: fallback stream shape: for the non-empty normalized text of a
\* request the fallback stream has length wordCount(text) * k for one k in
\* 10..20 and every token in 0..4095, so it is not empty; the synthesizer of
\* generate_speech never receives an empty token stream.
FallbackStreamShape ==
    \A t \in threads :
        pc[t] = "synth" =>
            /\ req[t].clean # <<>>
            /\ req[t].tokens # <<>>
            /\ req[t].fallback =>
                /\ \E k \in 10..20 :
                      Len(req[t].tokens) = WordCount(req[t].clean, 1) * k
                /\ \A i \in 1..Len(req[t].tokens) : req[t].tokens[i] \in 0..4095

\* the synthesizer is about to receive the fallback stream of a text of two
\* words
FallbackStreamShapeWitness ==
    \E t \in threads :
        /\ pc[t] = "synth"
        /\ req[t].fallback
        /\ WordCount(req[t].clean, 1) = 2
        /\ Len(req[t].tokens) >= 20

-----------------------------------------------------------------------------
(* Synthesis as a function: _convert_tokens_to_audio applied to a token    *)
(* stream, for an engine of each valid sample rate, with and without numpy *)

MaxChunks == 2

\* len(header + audio_data.tobytes()): the header's parts (lines 317-330) are
\* four-byte tags and to_bytes(4, 'little') or to_bytes(2, 'little') fields,
\* and int16 samples take two bytes each
WavLen(w) ==
    Sum(<<4, 4, 4, 4, 4, 2, 2, 4, 4, 2, 2, 4, 4>>) + 2 * TotalSamples(w.data)

ApplyWav ==
    /\ fout = <<>>
    /\ fout' = <<_convert_tokens_to_audio(
                    [settings |-> [sample_rate |-> fin.sample_rate]], fin.tokens)>>
    /\ UNCHANGED <<np, fin, engineVars, hostVars>>

\* token streams: empty, shorter than a chunk, whole chunks, and whole chunks
\* with a shorter last one; all of one token value
InitWav ==
    /\ InitEngine
    /\ np \in BOOLEAN
    /\ threads = {1}
    /\ HostIdle
    /\ LET lengths == {0, 1, 2, 29}
                      \cup {k * chunk_size + d : k \in 1..MaxChunks, d \in {0, 1, 29}}
           WavStreams == {[i \in 1..n |-> v] : n \in lengths, v \in {0, 4095}}
       IN  fin \in [tokens : WavStreams, sample_rate : valid_rates]
    /\ fout = <<>>

SpecWav == InitWav /\ [][ApplyWav]_vars

\* C18: a non-empty token stream is synthesized, at every valid sample rate,
\* into a 44-byte header followed by the PCM data: the RIFF size is 36 plus
\* the data size, the fmt part declares PCM, one channel, 16 bits, the
\* configured sample rate, byte rate twice the sample rate and block align 2,
\* and the data size is twice the number of samples and is the number of
\* bytes after the header
WavStructure ==
    fout # <<>> /\ fin.tokens # <<>> =>
        /\ fout[1] # <<>>
        /\ LET w == fout[1][1]
           IN  /\ WavLen(w) = 44 + w.data_size
               /\ w.file_size = 36 + w.data_size
               /\ w.fmt_size = 16
               /\ w.audio_format = 1
               /\ w.channels = 1
               /\ w.bits_per_sample = 16
               /\ w.sample_rate = fin.sample_rate
               /\ w.byte_rate = 2 * fin.sample_rate
               /\ w.block_align = 2
               /\ w.data_size = 2 * TotalSamples(w.data)

\* 79 tokens at 48000 Hz with numpy: two chunks, 48000 and 27839 samples
WavStructureWitness ==
    /\ fout # <<>>
    /\ np
    /\ Len(fin.tokens) = chunk_size + 29
    /\ fin.sample_rate = 48000
    /\ fout[1] # <<>>
    /\ Len(fout[1][1].data) = 2
    /\ fout[1][1].data_size = 2 * (48000 + 27839)

-----------------------------------------------------------------------------
(* The request for "Ciao" answered with two markers *)

\* thread t asked for "Ciao" on an engine of voice tara at 22050 Hz, and the
\* endpoint's completion was <custom_token_36864><custom_token_32050>
ExampleRequest(t) ==
    /\ req[t].text = <<"C", "i", "a", "o">>
    /\ settings.voice = tara
    /\ settings.sample_rate = 22050
    /\ req[t].resp = <<Marker(<<"3", "6", "8", "6", "4">>)
                       \o Marker(<<"3", "2", "0", "5", "0">>)>>

\* what follows for that request: the tokens, the audio made of the one
\* given chunk, and the final stage when neither synthesis nor the write of
\* the output file fails
ExampleOutcome(t, chunk) ==
    /\ pc[t] # "extract" => req[t].tokens = <<768, 50>> /\ ~req[t].fallback
    /\ req[t].synthesized =>
          /\ req[t].audio[1].data = <<chunk>>
          /\ req[t].audio[1].data_size = 1764
          /\ req[t].audio[1].sample_rate = 22050
    /\ Returned(t) /\ req[t].faults \cap {"synth", "write"} = {} =>
          /\ req[t].stage = "Done"
          /\ req[t].result
          /\ fs[req[t].out] = req[t].audio

-----------------------------------------------------------------------------
(* health_check as a function of the engine and of what the probe meets *)

\* OrpheusEngine.health_check on engine self, where the cache directory
\* exists or not and GET {ollama_url}/api/tags ends as probe says: with a
\* status code, or with an exception (exc).  The report is built before
\* the try block (lines 468-475), get_effective_mode included, so what is
\* raised there reaches the caller; requests lists the HTTP calls made
health_check(self, cache_dir_exists, probe) ==
    IF get_effective_mode_raises
    THEN [raised |-> <<"AttributeError">>, report |-> <<>>, requests |-> <<>>]
    ELSE LET health == [status |-> "unknown",
                        cache_enabled |-> self.settings.audio_cache_enabled,
                        cache_dir_exists |->
                            IF self.settings.audio_cache_enabled
                            THEN <<cache_dir_exists>> ELSE <<>>,
                        effective_mode |-> "ollama_direct",
                        ollama_connected |-> <<>>,
                        last_error |-> <<>>]
         IN  [raised |-> <<>>,
              report |-> <<
                 IF probe.exc = <<>> /\ probe.status_code = 200
                 THEN [health EXCEPT !.status = "healthy",
                                     !.ollama_connected = <<TRUE>>]
                 ELSE IF probe.exc = <<>>
                 THEN [health EXCEPT !.status = "ollama_unreachable",
                                     !.ollama_connected = <<FALSE>>]
                 ELSE [health EXCEPT !.status = "error",
                                     !.ollama_connected = <<FALSE>>,
                                     !.last_error = probe.exc] >>,
              requests |-> <<"GET /api/tags">>]

HealthCheck ==
    /\ fout = <<>>
    /\ fout' = <<health_check(Self, fin.cache_dir_exists, fin.probe)>>
    /\ UNCHANGED <<np, fin, engineVars, hostVars>>

\* an engine that is fresh or has served a request, and a probe that is
\* answered 200, 404 or 500, or raises
InitHealth ==
    /\ np = TRUE
    /\ settings \in EngineSettings
    /\ stats \in KeyStats
    /\ cache = <<>>
    /\ fs = [p \in OutPaths |-> <<>>]
    /\ pc = [t \in AllThreads |-> "idle"]
    /\ req = [t \in AllThreads |-> NoRequest]
    /\ prev = NoPrev
    /\ nreq = 0
    /\ rng = 0
    /\ threads = {1}
    /\ HostIdle
    /\ fin \in [cache_dir_exists : BOOLEAN,
                probe : {[status_code |-> 200, exc |-> <<>>],
                         [status_code |-> 404, exc |-> <<>>],
                         [status_code |-> 500, exc |-> <<>>],
                         [status_code |-> 0, exc |-> <<"ConnectionError">>],
                         [status_code |-> 0, exc |-> <<"Timeout">>]}]
    /\ fout = <<>>

SpecHealth == InitHealth /\ [][HealthCheck]_vars

\* C20: health_check returns a report and never raises: healthy and
\* reachable when the probe answers with success, unreachable and not
\* reachable when it answers with another status, error with last_error set
\* when the probe raises; it makes no generation call and leaves the
\* statistics and the cache as they were
HealthCheckReports ==
    fout # <<>> =>
        /\ fout[1].raised = <<>>
        /\ fout[1].report # <<>>
        /\ LET health == fout[1].report[1]
           IN  /\ fin.probe.exc = <<>> /\ fin.probe.status_code = 200 =>
                     health.status = "healthy" /\ health.ollama_connected = <<TRUE>>
               /\ fin.probe.exc = <<>> /\ fin.probe.status_code # 200 =>
                     /\ health.status = "ollama_unreachable"
                     /\ health.ollama_connected = <<FALSE>>
               /\ fin.probe.exc # <<>> =>
                     /\ health.status = "error"
                     /\ health.ollama_connected = <<FALSE>>
                     /\ health.last_error # <<>>
        /\ \A i \in 1..Len(fout[1].requests) :
              fout[1].requests[i] # "POST /api/generate"
        /\ stats \in KeyStats
        /\ cache = <<>>

-----------------------------------------------------------------------------
(* Properties of the statistics over sequences of requests *)

\* C21: each of requests_total, requests_success, requests_failed,
\* cache_hits and tokens_generated never decreases over the requests of an
\* engine; only reset_stats lowers them, and it sets all of them to 0 and
\* last_request to None (a new engine starts its own counters)
CountersNonDecreasing ==
    [][\/ ResetStats /\ stats' = ZeroStats
       \/ NewEngine
       \/ \A c \in {"requests_total", "requests_success", "requests_failed",
                    "cache_hits", "tokens_generated"} :
             stats'[c] >= stats[c]]_vars

-----------------------------------------------------------------------------
(* clean_text as a function, applied to a text and again to its result *)

MaxCleanLen == 5

ApplyClean ==
    /\ fout = <<>>
    /\ fout' = <<clean_text(fin), clean_text(clean_text(fin))>>
    /\ UNCHANGED <<np, fin, engineVars, hostVars>>

\* texts of markup delimiters, a letter and a space
InitClean ==
    /\ InitEngine
    /\ np = TRUE
    /\ settings = DefaultSettings
    /\ threads = {1}
    /\ HostIdle
    /\ fin \in UNION {[1..n -> {"<", ">", "*", "BQ", "a", " "}] : n \in 0..MaxCleanLen}
    /\ fout = <<>>

SpecClean == InitClean /\ [][ApplyClean]_vars

\* C22: cleaning a cleaned text changes nothing:
\* clean_text(clean_text(T)) = clean_text(T) for every text T
CleanIdempotent == fout # <<>> => fout[2] = fout[1]

-----------------------------------------------------------------------------
(* Properties of the hook before_cat_sends_message *)

\* C23: the hook returns the message it was given, unchanged, on every path;
\* no hook invocation gets past the test of enable_tts, so none creates an
\* engine or calls generate_speech
HookReturnsMessage ==
    \A t \in threads :
        /\ hpc[t] = "hook_return" => hloc[t].returned = hloc[t].message
        /\ hloc[t].op = "hook" =>
              hpc[t] = "hook_return" /\ hloc[t].obj = 0 /\ hloc[t].ret = <<>>
        /\ hloc[t].returned # <<>> => hpc[t] = "hook_return" /\ hloc[t].op = "hook"

\* a hook invocation is returning its message while an engine exists
HookReturnsMessageWitness ==
    \E t \in threads :
        /\ hpc[t] = "hook_return"
        /\ hloc[t].message = <<"ciao">>
        /\ hloc[t].returned = <<"ciao">>
        /\ global # 0

-----------------------------------------------------------------------------
(* Properties of the chunks of _convert_tokens_to_audio *)

\* C24: a stream of n tokens becomes ceil(n/50) chunks, in order, all of 50
\* tokens but the last, which has 1 to 50; each chunk has
\* sample_rate * len(chunk) / 50 samples at base frequency
\* 200 + (sum(chunk) mod 400), within 200..599; the total number of samples
\* is n * sample_rate / 50
ChunkedSynthesis ==
    fout # <<>> /\ fin.tokens # <<>> =>
        /\ fout[1] # <<>>
        /\ LET data == fout[1][1].data
               n == Len(fin.tokens)
               first(k) == (k - 1) * 50 + 1
               last(k) == IF k * 50 < n THEN k * 50 ELSE n
           IN  /\ Len(data) = (n + 49) \div 50
               /\ \A k \in 1..Len(data) :
                     /\ data[k].samples =
                           (fin.sample_rate * (last(k) - first(k) + 1)) \div 50
                     /\ data[k].base_freq =
                           200 + (Sum(SubSeq(fin.tokens, first(k), last(k))) % 400)
                     /\ data[k].base_freq \in 200..599
               /\ TotalSamples(data) = (n * fin.sample_rate) \div 50

-----------------------------------------------------------------------------
(* Engines of different sample rates, one after the other, on one cache    *)
(* directory                                                               *)

\* OrpheusEngine.__init__: a new engine whose settings differ from the last
\* one's in the sample rate only; the cache directory is the same
NewEngineAtRate ==
    /\ Idle
    /\ \E r \in valid_rates \ {settings.sample_rate} :
          settings' = [settings EXCEPT !.sample_rate = r]
    /\ stats' = ZeroStats
    /\ UNCHANGED <<np, cache, fs, pc, req, prev, nreq, threads, rng, hostVars, fnVars>>

NextRate ==
    \/ NextRequests
    \/ NewEngineAtRate

InitRate ==
    /\ InitEngine
    /\ np = TRUE
    /\ settings = DefaultSettings
    /\ threads = {1}
    /\ HostIdle
    /\ FnIdle

SpecRate == InitRate /\ [][NextRate]_vars

\* C25: the WAV file a successful request leaves at its output path declares
\* the sample rate of the engine that served the request, also when the
\* request was a cache hit on an entry stored by an engine of another rate
ReturnedAudioRate ==
    \A t \in threads :
        Returned(t) /\ req[t].result /\ fs[req[t].out] # <<>>
                    /\ fs[req[t].out][1].kind = "wav" =>
            fs[req[t].out][1].sample_rate = settings.sample_rate

-----------------------------------------------------------------------------
(* _generate_simulated_tokens step by step in two threads: random.seed and *)
(* every random.randint are calls on the one generator of the module       *)
(* random, and a thread switch may fall between any two of them            *)

MaxDraws == 3

\* a thread enters _generate_simulated_tokens with its text
SimEnter(t) ==
    /\ pc[t] = "idle"
    /\ req[t].calls = 0
    /\ \E text \in FallbackTexts :
          req' = [req EXCEPT ![t] = [NoRequest EXCEPT !.clean = text, !.calls = 1]]
    /\ pc' = [pc EXCEPT ![t] = "sim_seed"]
    /\ UNCHANGED <<np, settings, stats, cache, fs, prev, nreq, threads, rng, hostVars, fnVars>>

\* line 238: random.seed(int(seed[:8], 16))
SimSeed(t) ==
    /\ pc[t] = "sim_seed"
    /\ rng' = SeedOf(req[t].clean \o <<"_">> \o settings.voice, 7)
    /\ pc' = [pc EXCEPT ![t] = "sim_count"]
    /\ UNCHANGED <<np, settings, stats, cache, fs, req, prev, nreq, threads, hostVars, fnVars>>

\* lines 241-242: num_tokens = len(words) * random.randint(10, 20)
SimCount(t) ==
    /\ pc[t] = "sim_count"
    /\ rng' = RngNext(rng)
    /\ req' = [req EXCEPT ![t].tmp = WordCount(req[t].clean, 1) * RandInt(rng', 10, 20)]
    /\ pc' = [pc EXCEPT ![t] = "sim_draw"]
    /\ UNCHANGED <<np, settings, stats, cache, fs, prev, nreq, threads, hostVars, fnVars>>

\* lines 246-248: one turn of the loop, followed here for the first MaxDraws
\* tokens
SimDraw(t) ==
    /\ pc[t] = "sim_draw"
    /\ IF Len(req[t].tokens) < Min(req[t].tmp, MaxDraws)
       THEN /\ rng' = RngNext(rng)
            /\ req' = [req EXCEPT ![t].tokens = Append(@, RandInt(rng', 0, 4095))]
            /\ pc' = pc
       ELSE /\ pc' = [pc EXCEPT ![t] = "sim_done"]
            /\ UNCHANGED <<rng, req>>
    /\ UNCHANGED <<np, settings, stats, cache, fs, prev, nreq, threads, hostVars, fnVars>>

NextSim ==
    \/ \E t \in threads : SimEnter(t)
    \/ \E t \in threads : SimSeed(t)
    \/ \E t \in threads : SimCount(t)
    \/ \E t \in threads : SimDraw(t)

InitSim ==
    /\ InitEngine
    /\ np = TRUE
    /\ threads = AllThreads
    /\ HostIdle
    /\ FnIdle

SpecSim == InitSim /\ [][NextSim]_vars

\* C26: the fallback tokens a thread obtains for its text and the engine's
\* voice are those it obtains when it runs alone, whatever another thread
\* does with the generator meanwhile
ConcurrentFallbackSame ==
    \A t \in threads :
        pc[t] = "sim_done" =>
            LET alone == _generate_simulated_tokens(Self, req[t].clean)[1]
            IN  /\ req[t].tmp = Len(alone)
                /\ req[t].tokens = SubSeq(alone, 1, Min(Len(alone), MaxDraws))

-----------------------------------------------------------------------------
(* Properties of init_orpheus_engine *)

\* C29: where the cache directory can be created, init_orpheus_engine
\* returns True and has made a complete engine the global one, for settings
\* with enable_debug false and with enable_debug true alike
InitSucceeds ==
    \A t \in threads :
        hpc[t] = "init_return" /\ hloc[t].faults = {} =>
            /\ hloc[t].ok
            /\ hloc[t].obj # 0
            /\ Constructed(engines[hloc[t].obj])
            /\ engines[hloc[t].obj].published

-----------------------------------------------------------------------------
(* Saved settings and the hook *)

\* C27: a hook invocation that starts once plugin_settings_save has completed
\* (none is in progress), and has a message to speak, is served by an engine:
\* it gets one from get_orpheus_engine, calls generate_speech on it, and that
\* engine was constructed from settings stored no earlier than the ones the
\* invocation started with
SavedSettingsTakeEffect ==
    \A t \in threads :
        /\ hpc[t] = "hook_return"
        /\ hloc[t].after_save
        /\ ~NoCleanText(hloc[t].message[1])
        => /\ hloc[t].ret # <<>>
           /\ hloc[t].spoke
           /\ engines[hloc[t].ret[1]].settings # <<>>
           /\ engines[hloc[t].ret[1]].settings[1] \in hloc[t].fresh

\* the hook invocations that are about to return, had a message to speak and
\* ran with the global engine absent
FoundAbsent ==
    {t \in threads : /\ hpc[t] = "hook_return"
                     /\ hloc[t].absent
                     /\ ~NoCleanText(hloc[t].message[1])}

\* C28: the hook invocations that run with the global engine absent create
\* exactly one engine between them and all use that instance: each gets an
\* engine (never None) from get_orpheus_engine and calls generate_speech on
\* it, it is the same one for all, and it is the engine that was created
SingleEnginePerInitialisation ==
    FoundAbsent # {} =>
        /\ Cardinality({hloc[t].obj : t \in FoundAbsent} \ {0}) = 1
        /\ \A t \in FoundAbsent :
              /\ hloc[t].ret # <<>>
              /\ hloc[t].spoke
              /\ hloc[t].ret[1] \in {hloc[u].obj : u \in FoundAbsent}
        /\ \A t, u \in FoundAbsent : hloc[t].ret = hloc[u].ret

-----------------------------------------------------------------------------
(* Over-long text *)

\* texts that agree on their first characters, two of them longer than
\* max_text_length
LongTexts ==
    {<<"a", " ", "b", "c">>, <<"a", " ", "b", "c", "d", "e">>,
     <<"a", " ", "b", "c", "d", "e", "e">>}

\* generate_speech is called with one of the long texts
CallLong(t) ==
    /\ pc[t] = "idle"
    /\ nreq < MaxRequests
    /\ \E text \in LongTexts, out \in FreePaths :
          req' = [req EXCEPT ![t] = [NoRequest EXCEPT !.text = text, !.out = out,
                                                      !.stage = "Start",
                                                      !.stats0 = stats]]
    /\ pc' = [pc EXCEPT ![t] = "inc_total"]
    /\ nreq' = nreq + 1
    /\ UNCHANGED <<np, settings, stats, cache, fs, prev, threads, rng, hostVars, fnVars>>

NextTrunc ==
    \/ \E t \in threads : CallLong(t)
    \/ \E t \in threads : LoadCounter(t)
    \/ \E t \in threads : StoreCounter(t)
    \/ \E t \in threads : Normalize(t)
    \/ \E t \in threads : CacheCheck(t)
    \/ \E t \in threads : CacheCopy(t)
    \/ \E t \in threads : TokensRequest(t)
    \/ \E t \in threads : Extract(t)
    \/ \E t \in threads : Synthesize(t)
    \/ \E t \in threads : WriteOutput(t)
    \/ \E t \in threads : CacheStore(t)
    \/ \E t \in threads : ReturnSuccess(t)
    \/ \E t \in threads : Return(t)

SpecTrunc == InitRate /\ [][NextTrunc]_vars

\* the first max_text_length characters of the normalized form of text
FirstChars(text) ==
    LET c == clean_text(text)
    IN  [i \in 1..(IF Len(c) > settings.max_text_length
                   THEN settings.max_text_length ELSE Len(c)) |-> c[i]]

\* the request of thread t is past the length check of generate_speech
PastLengthCheck(t) == pc[t] \notin {"idle", "inc_total", "normalize"}

\* thread t's request follows a completed request that succeeded under the
\* same settings with caching on, no filesystem fault in either, and the
\* two inputs agree on the first max_text_length characters of their
\* normalized forms
AgreesWithLast(t) ==
    /\ prev.valid
    /\ prev.result
    /\ prev.fsok
    /\ prev.settings = settings
    /\ settings.audio_cache_enabled
    /\ FsOk(t)
    /\ FirstChars(prev.text) = FirstChars(req[t].text)

\* C30: a request whose normalized text is longer than max_text_length is
\* not rejected: generate_speech goes on with its first max_text_length
\* characters, and that truncated text is what the cache is looked up and
\* filled with, what the prompt is made of and what the fallback tokens are
\* derived from; and a request whose input agrees with the last successful
\* one's on those first characters is a cache hit that delivers the first
\* one's audio without calling the endpoint
TruncatedNotRejected ==
    \A t \in threads :
        /\ PastLengthCheck(t)
               /\ Len(clean_text(req[t].text)) > settings.max_text_length =>
              /\ req[t].clean = FirstChars(req[t].text)
              /\ Len(req[t].clean) = settings.max_text_length
              /\ req[t].cached # <<>> =>
                    req[t].cached[1] = cache_file(Self, FirstChars(req[t].text))
              /\ req[t].cache_written =>
                    cache_file(Self, FirstChars(req[t].text)) \in DOMAIN cache
              /\ req[t].prompt # <<>> =>
                    req[t].prompt = _format_prompt_original(
                                        FirstChars(req[t].text), settings.voice)
              /\ req[t].fallback /\ req[t].tokens # <<>> =>
                    req[t].tokens = _generate_simulated_tokens(
                                        Self, FirstChars(req[t].text))[1]
        /\ Returned(t) /\ AgreesWithLast(t) =>
              /\ req[t].hit
              /\ req[t].result
              /\ fs[req[t].out] = prev.produced
              /\ req[t].calls = 0

\* an over-long input has been served from the cache entry of another input
\* that agrees with it on the first max_text_length characters
TruncatedNotRejectedWitness ==
    \E t \in threads :
        /\ Returned(t)
        /\ AgreesWithLast(t)
        /\ prev.text # req[t].text
        /\ Len(clean_text(req[t].text)) > settings.max_text_length
        /\ Len(clean_text(prev.text)) > settings.max_text_length
        /\ req[t].hit
        /\ req[t].out = "out2"
        /\ fs["out2"] = prev.produced
        /\ prev.produced # <<>>

-----------------------------------------------------------------------------
(* The endpoint URL: validate_ollama_url and the URLs the engine requests *)

MaxUrlLen == 5

\* str.startswith
startswith(v, prefix) ==
    Len(v) >= Len(prefix) /\ SubSeq(v, 1, Len(prefix)) = prefix

\* str.endswith
endswith(v, suffix) ==
    Len(v) >= Len(suffix) /\ SubSeq(v, Len(v) - Len(suffix) + 1, Len(v)) = suffix

\* str.rstrip(chars): the trailing characters that are in chars are removed
RECURSIVE rstrip(_, _)
rstrip(v, chars) ==
    IF v # <<>> /\ v[Len(v)] \in chars
    THEN rstrip(SubSeq(v, 1, Len(v) - 1), chars)
    ELSE v

Http == <<"h", "t", "t", "p", ":", "/", "/">>
Https == <<"h", "t", "t", "p", "s", ":", "/", "/">>
V1 == <<"/", "v", "1">>

\* OrpheusSettings.validate_ollama_url: <<>> for the ValueError, and
\* otherwise the validated URL
validate_ollama_url(v) ==
    IF ~(startswith(v, Http) \/ startswith(v, Https))
    THEN <<>>
    ELSE IF ~endswith(v, V1)
    THEN <<rstrip(v, {"/"}) \o V1>>
    ELSE <<v>>

\* line 182: f"{self.settings.ollama_url.rstrip('/v1')}/api/generate"
GenerateUrl(ollama_url) == rstrip(ollama_url, {"/", "v", "1"}) \o <<"/api/generate">>

\* line 480: f"{self.settings.ollama_url.rstrip('/v1')}/api/tags"
TagsUrl(ollama_url) == rstrip(ollama_url, {"/", "v", "1"}) \o <<"/api/tags">>

\* settings are built from the URL fin: the validator runs, and once more on
\* its own result; an engine with these settings derives its two URLs
ApplyUrl ==
    /\ fout = <<>>
    /\ LET once == validate_ollama_url(fin)
       IN  fout' = IF once = <<>>
                   THEN <<[valid |-> FALSE]>>
                   ELSE <<[valid |-> TRUE,
                           ollama_url |-> once[1],
                           again |-> validate_ollama_url(once[1]),
                           generate |-> GenerateUrl(once[1]),
                           tags |-> TagsUrl(once[1])]>>
    /\ UNCHANGED <<np, fin, engineVars, hostVars>>

\* URLs: a scheme, then up to MaxUrlLen characters of host, port and path
InitUrl ==
    /\ InitEngine
    /\ np = TRUE
    /\ settings = DefaultSettings
    /\ threads = {1}
    /\ HostIdle
    /\ \E scheme \in {Http, Https, <<"f", "t", "p", ":", "/", "/">>} :
       \E rest \in UNION {[1..n -> {"h", ":", "1", "v", "/"}] : n \in 0..MaxUrlLen} :
          fin = scheme \o rest
    /\ fout = <<>>

SpecUrl == InitUrl /\ [][ApplyUrl]_vars

\* the URL without its last three characters
WithoutV1(url) == SubSeq(url, 1, Len(url) - Len(V1))

\* C31: the validator is idempotent and its result ends in exactly one
\* "/v1"; the generate request goes to that result with its one trailing
\* "/v1" removed followed by "/api/generate", and the health probe to the
\* same prefix followed by "/api/tags"
EndpointUrlDerivation ==
    fout # <<>> /\ fout[1].valid =>
        /\ fout[1].again = <<fout[1].ollama_url>>
        /\ endswith(fout[1].ollama_url, V1)
        /\ ~endswith(WithoutV1(fout[1].ollama_url), V1)
        /\ fout[1].generate = WithoutV1(fout[1].ollama_url) \o <<"/api/generate">>
        /\ fout[1].tags = WithoutV1(fout[1].ollama_url) \o <<"/api/tags">>

-----------------------------------------------------------------------------
(* The order among the statistics *)

\* C32: between the requests and resets of a single caller,
\* 0 <= cache_hits <= requests_success and
\* requests_success + requests_failed <= requests_total, and cache_hits is 0
\* while caching is disabled; and a request that was a cache hit has added
\* exactly 1 to cache_hits and to requests_success and left requests_failed
\* and tokens_generated as they were
StatisticsOrdering ==
    /\ Idle \/ (\E t \in threads : Returned(t)) =>
          /\ 0 <= stats.cache_hits
          /\ stats.cache_hits <= stats.requests_success
          /\ stats.requests_success + stats.requests_failed
                <= stats.requests_total
          /\ ~settings.audio_cache_enabled => stats.cache_hits = 0
    /\ \A t \in threads :
          Returned(t) /\ req[t].hit =>
              /\ stats.cache_hits = req[t].stats0.cache_hits + 1
              /\ stats.requests_success = req[t].stats0.requests_success + 1
              /\ stats.requests_failed = req[t].stats0.requests_failed
              /\ stats.tokens_generated = req[t].stats0.tokens_generated

\* a cache hit has returned on an engine whose statistics were reset after
\* the request that filled the cache: the hit is the only success counted
StatisticsOrderingWitness ==
    \E t \in threads :
        /\ Returned(t)
        /\ req[t].hit
        /\ req[t].stats0 = ZeroStats
        /\ prev.valid /\ prev.result
        /\ stats.cache_hits = 1
        /\ stats.requests_success = 1
        /\ stats.requests_total = 1

=============================================================================
